---- MODULE Spec2Model ----
(***************************************************************************)
(* A model of japanese-law-search: the document chunker and the metadata  *)
(* extractor of DocumentParser, the ProviderFactory (provider selection,   *)
(* wrapped services, health status and timer, cost ledger), the            *)
(* QueryProcessor with its ConversationManager, the ChromaVectorStore, the *)
(* embedding services' generateEmbeddings, the DocumentIndexer and the     *)
(* frontend chat store.                                                    *)
(*                                                                         *)
(* Each subsystem has its own variables and its own specifications         *)
(* (SpecChunk, SpecMeta, SpecProvider, SpecQuery, SpecSearch, SpecAdd,     *)
(* SpecBatch, ...); a specification leaves the variables of the other      *)
(* subsystems at their idle values.                                        *)
(***************************************************************************)
EXTENDS Integers, Sequences, FiniteSets, TLC

VARIABLES
  \* ---- DocumentParser.createChunks
  content,        \* document.fullContent, a sequence of characters
  chunkSize,      \* parameter chunkSize
  overlap,        \* parameter overlap
  startPos,       \* local startPos (0-based offset)
  chunkIndex,     \* local chunkIndex
  chunks,         \* local chunks, the list that is returned
  cpc,            \* position in createChunks: "idle", "start", "loop", "done"
  \* ---- DocumentParser.extractLawNumber
  fileName,       \* the file name without ".md", a sequence of characters
  patIdx,         \* index of the next pattern of `patterns` to try
  lawNumber,      \* the value returned (None for undefined)
  mpc,            \* position in extractLawNumber: "idle", "try", "done"
  date,           \* the value extractDate returned (NoDate for undefined)
  dpc,            \* position in extractDate: "idle", "try", "done"
  \* ---- ProviderFactory
  config,         \* this.config: primary, fallback, healthCheckInterval, provider blocks
  healthStatus,   \* this.healthStatus, provider -> status
  costTracking,   \* this.costTracking, the cost ledger
  timer,          \* this.healthCheckInterval: "none", "active" or "cleared"
  creates,        \* the calls of createEmbeddingService / createLLMService
  services,       \* the wrapped services handed out so far
  rounds,         \* the runs of performHealthChecks
  invocations,    \* number of calls made through wrapped services
  lastInvoke,     \* the latest call made through a wrapped service
  \* ---- QueryProcessor and ConversationManager
  conversations,  \* ConversationManager.conversations, id -> conversation
  created,        \* how often createConversation ran for each id
  uuidCount,      \* number of ids uuidv4() has generated
  qcalls,         \* the calls of processQuery
  \* ---- ChromaVectorStore
  searchCall,     \* the call of searchByEmbedding
  prevSearch,     \* the call of searchByEmbedding that returned before it
  addCall,        \* the call of addEmbeddings
  \* ---- the callers of ProviderFactory
  observations,   \* what each call of updateHealthStatus was given, per provider
  workload,       \* the service and the method a caller keeps calling
  \* ---- OpenAIEmbeddingService / GeminiEmbeddingService
  batchCall,      \* the call of generateEmbeddings
  \* ---- ChromaVectorStore.addEmbeddings, one group with its vectors
  groupCall,      \* the chunks, the vectors and what was written
  \* ---- DocumentIndexer and the collection behind its vector store
  indexer,        \* the stored chunks, the ids generated, the runs per file
  \* ---- the frontend chat store
  chat            \* the store's state and the sendMessage call

chunkVars == <<content, chunkSize, overlap, startPos, chunkIndex, chunks, cpc>>
metaVars == <<fileName, patIdx, lawNumber, mpc, date, dpc>>
provVars == <<config, healthStatus, costTracking, timer, creates, services, rounds,
              invocations, lastInvoke>>
queryVars == <<conversations, created, uuidCount, qcalls>>
addVars == <<addCall>>
storeVars == <<searchCall, prevSearch, addVars>>
callerVars == <<observations, workload>>
batchVars == <<batchCall>>
pairVars == <<groupCall>>
indexVars == <<indexer>>
chatVars == <<chat>>
laterVars == <<batchVars, pairVars, indexVars, chatVars>>
vars == <<chunkVars, metaVars, provVars, queryVars, storeVars, callerVars, laterVars>>

notChunkVars == <<metaVars, provVars, queryVars, storeVars, callerVars, laterVars>>
notMetaVars == <<chunkVars, provVars, queryVars, storeVars, callerVars, laterVars>>
notProvVars == <<chunkVars, metaVars, queryVars, storeVars, callerVars, laterVars>>
notQueryVars == <<chunkVars, metaVars, provVars, storeVars, callerVars, laterVars>>
notStoreVars == <<chunkVars, metaVars, provVars, queryVars, callerVars, laterVars>>
earlierVars == <<chunkVars, metaVars, provVars, queryVars, storeVars, callerVars>>
notBatchVars == <<earlierVars, pairVars, indexVars, chatVars>>
notPairVars == <<earlierVars, batchVars, indexVars, chatVars>>
notIndexVars == <<earlierVars, batchVars, pairVars, chatVars>>
notChatVars == <<earlierVars, batchVars, pairVars, indexVars>>

None == "undefined"

Max(a, b) == IF a >= b THEN a ELSE b
Min(a, b) == IF a <= b THEN a ELSE b

-----------------------------------------------------------------------------
(***************************************************************************)
(* Characters.  A text is a sequence of characters; the chunker only       *)
(* distinguishes the classes its regular expressions and trim() look at.   *)
(***************************************************************************)
Char == {"a", "sp", "nl", "maru", "ten"}
\* "sp" a blank, "nl" a line feed, "maru" the full stop U+3002,
\* "ten" the comma U+3001, "a" any other character

IsSpace(c) == c \in {"sp", "nl"}

\* bounds of the chunker's inputs
MaxLen == 4
MaxChunkSize == 3
MaxOverlap == 2

RECURSIVE SeqsUpTo(_, _)
SeqsUpTo(S, n) ==
  IF n = 0 THEN {<<>>}
  ELSE LET shorter == SeqsUpTo(S, n - 1)
       IN shorter \cup {Append(s, c) : s \in {t \in shorter : Len(t) = n - 1}, c \in S}

\* String.prototype.substring(a, b) for 0 <= a, 0 <= b
Substring(s, a, b) ==
  LET lo == Min(Min(a, b), Len(s))
      hi == Min(Max(a, b), Len(s))
  IN SubSeq(s, lo + 1, hi)

\* String.prototype.trim()
RECURSIVE TrimLeft(_)
TrimLeft(s) ==
  IF s # <<>> /\ IsSpace(Head(s)) THEN TrimLeft(Tail(s)) ELSE s

RECURSIVE TrimRight(_)
TrimRight(s) ==
  IF s # <<>> /\ IsSpace(s[Len(s)]) THEN TrimRight(SubSeq(s, 1, Len(s) - 1)) ELSE s

Trim(s) == TrimRight(TrimLeft(s))

-----------------------------------------------------------------------------
(***************************************************************************)
(* DocumentParser.findBestBreakPoint                                       *)
(***************************************************************************)
LookAhead == 100

\* the five patterns, in the order of the array `patterns`
BreakPatterns == <<"nlnl", "maru", "nl", "ten", "space">>

\* whether the pattern matches the search area at index i (0-based), and how long
PatternLen(pat) == IF pat = "nlnl" THEN 2 ELSE 1

MatchesAt(area, pat, i) ==
  /\ i + PatternLen(pat) <= Len(area)
  /\ CASE pat = "nlnl" -> area[i + 1] = "nl" /\ area[i + 2] = "nl"
       [] pat = "maru" -> area[i + 1] = "maru"
       [] pat = "nl" -> area[i + 1] = "nl"
       [] pat = "ten" -> area[i + 1] = "ten"
       [] OTHER -> IsSpace(area[i + 1])

\* the inner while loop: pattern.exec from index i on, matches taken left to
\* right without overlap; a match at a position beyond `end` ends the loop
RECURSIVE LastMatch(_, _, _, _, _, _)
LastMatch(area, pat, start, end, i, lastMatch) ==
  IF i >= Len(area) THEN lastMatch
  ELSE IF MatchesAt(area, pat, i)
       THEN IF start + i <= end
            THEN LastMatch(area, pat, start, end, i + PatternLen(pat),
                           start + i + PatternLen(pat))
            ELSE lastMatch
       ELSE LastMatch(area, pat, start, end, i + 1, lastMatch)

RECURSIVE TryPatterns(_, _, _, _)
TryPatterns(area, start, end, k) ==
  IF k > Len(BreakPatterns) THEN end
  ELSE LET lastMatch == LastMatch(area, BreakPatterns[k], start, end, 0, -1)
       IN IF lastMatch > start THEN lastMatch
          ELSE TryPatterns(area, start, end, k + 1)

findBestBreakPoint(text, start, end) ==
  TryPatterns(Substring(text, start, end + LookAhead), start, end, 1)

-----------------------------------------------------------------------------
(***************************************************************************)
(* DocumentParser.createChunks                                             *)
(***************************************************************************)
Chunk(text, idx, from, to) ==
  [content |-> text, chunkIndex |-> idx, startPosition |-> from, endPosition |-> to]

\* the chunk of the branch content.length <= chunkSize
SingleChunk(text) == Chunk(Trim(text), 0, 0, Len(text))

\* endPos and actualEndPos of one iteration of the window loop
ActualEndPos(text, size, from) ==
  LET endPos == Min(from + size, Len(text))
  IN IF endPos < Len(text)
     THEN LET nextBreak == findBestBreakPoint(text, from, endPos)
          IN IF nextBreak > from THEN nextBreak ELSE endPos
     ELSE endPos

\* the chunks list after the iteration: an empty trimmed content is not pushed
PushChunk(list, chunkContent, idx, from, to) ==
  IF Len(chunkContent) > 0 THEN Append(list, Chunk(chunkContent, idx, from, to))
  ELSE list

\* a counter that also counts the windows that were skipped
NextChunkIndexCountingSkipped(chunkContent, idx) == idx + 1

NextChunkIndex(chunkContent, idx) ==
  IF Len(chunkContent) > 0 THEN idx + 1 ELSE idx

\* the next window start without the floor at from + 1
NextStartPosNoFloor(actualEndPos, from, ovl) == Max(actualEndPos - ovl, 0)

NextStartPos(actualEndPos, from, ovl) == Max(actualEndPos - ovl, from + 1)

ChunkInit ==
  /\ content \in SeqsUpTo(Char, MaxLen)
  /\ chunkSize \in 0..MaxChunkSize
  /\ overlap \in 0..MaxOverlap
  /\ startPos = 0
  /\ chunkIndex = 0
  /\ chunks = <<>>
  /\ cpc = "start"

ChunkIdle ==
  /\ content = <<>>
  /\ chunkSize = 0
  /\ overlap = 0
  /\ startPos = 0
  /\ chunkIndex = 0
  /\ chunks = <<>>
  /\ cpc = "idle"

\* lines 139-158: the single-chunk branch, or entry into the window loop
CreateChunksEntry ==
  /\ cpc = "start"
  /\ IF Len(content) <= chunkSize
     THEN /\ chunks' = <<SingleChunk(content)>>
          /\ cpc' = "done"
     ELSE /\ chunks' = <<>>
          /\ cpc' = "loop"
  /\ UNCHANGED <<content, chunkSize, overlap, startPos, chunkIndex, notChunkVars>>

\* lines 160-193: one iteration of while (startPos < content.length)
CreateChunksIter ==
  /\ cpc = "loop"
  /\ startPos < Len(content)
  /\ LET actualEndPos == ActualEndPos(content, chunkSize, startPos)
         chunkContent == Trim(Substring(content, startPos, actualEndPos))
         next == NextStartPos(actualEndPos, startPos, overlap)
     IN /\ chunks' = PushChunk(chunks, chunkContent, chunkIndex, startPos, actualEndPos)
        /\ chunkIndex' = NextChunkIndex(chunkContent, chunkIndex)
        /\ startPos' = next
        /\ cpc' = IF next >= actualEndPos \/ next >= Len(content) THEN "done" ELSE "loop"
  /\ UNCHANGED <<content, chunkSize, overlap, notChunkVars>>

ChunkNext == CreateChunksEntry \/ CreateChunksIter

\* the condition of the while loop
IterEnabled == cpc = "loop" /\ startPos < Len(content)

\* a caller calls createChunks(document, chunkSize, overlap)
CreateChunksCall ==
  /\ cpc = "idle"
  /\ content' \in SeqsUpTo(Char, MaxLen)
  /\ chunkSize' \in 0..MaxChunkSize
  /\ overlap' \in 0..MaxOverlap
  /\ startPos' = 0
  /\ chunkIndex' = 0
  /\ chunks' = <<>>
  /\ cpc' = "start"
  /\ UNCHANGED notChunkVars

ChunkCallNext == CreateChunksCall \/ CreateChunksEntry \/ CreateChunksIter

-----------------------------------------------------------------------------
(***************************************************************************)
(* DocumentParser.extractLawNumber.  A file name is a sequence of          *)
(* characters; the patterns look at digits and upper-case letters.         *)
(***************************************************************************)
Digits == {"0", "1", "2", "3", "4", "5", "7", "9"}
Uppers == {"A", "C"}
\* "_" the underscore, "l" any lower-case letter

IsDigit(c) == c \in Digits
IsUpper(c) == c \in Uppers

RECURSIVE Rep(_, _)
Rep(c, n) == IF n = 0 THEN <<>> ELSE <<c>> \o Rep(c, n - 1)

\* the length of the longest run of characters of a class that starts at index i
RECURSIVE DigitRun(_, _)
DigitRun(s, i) ==
  IF i <= Len(s) /\ IsDigit(s[i]) THEN 1 + DigitRun(s, i + 1) ELSE 0

RECURSIVE UpperRun(_, _)
UpperRun(s, i) ==
  IF i <= Len(s) /\ IsUpper(s[i]) THEN 1 + UpperRun(s, i + 1) ELSE 0

\* the number of characters a regular expression consumes at index i,
\* or -1 when it does not match there
\* \d{3}[A-Z]{2}\d{7}
MatchFixed(s, i) ==
  IF /\ DigitRun(s, i) >= 3
     /\ UpperRun(s, i + 3) >= 2
     /\ DigitRun(s, i + 5) >= 7
  THEN 12 ELSE -1

\* \d{3}[A-Z]+\d+ (both quantifiers greedy; the classes are disjoint)
MatchLoose(s, i) ==
  LET u == UpperRun(s, i + 3)
      d == DigitRun(s, i + 3 + u)
  IN IF DigitRun(s, i) >= 3 /\ u >= 1 /\ d >= 1 THEN 3 + u + d ELSE -1

\* \d{3}[A-Z]+
MatchPrefix(s, i) ==
  LET u == UpperRun(s, i + 3)
  IN IF DigitRun(s, i) >= 3 /\ u >= 1 THEN 3 + u ELSE -1

\* the leftmost match of the unanchored third pattern
RECURSIVE SearchPrefix(_, _)
SearchPrefix(s, i) ==
  IF i > Len(s) THEN None
  ELSE IF MatchPrefix(s, i) > 0 THEN SubSeq(s, i, i + MatchPrefix(s, i) - 1)
       ELSE SearchPrefix(s, i + 1)

\* fileName.match(patterns[k]): match[1], or None for null
MatchPattern(s, k) ==
  CASE k = 1 -> IF MatchFixed(s, 1) > 0 THEN SubSeq(s, 1, MatchFixed(s, 1)) ELSE None
    [] k = 2 -> IF MatchLoose(s, 1) > 0 THEN SubSeq(s, 1, MatchLoose(s, 1)) ELSE None
    [] OTHER -> SearchPrefix(s, 1)

NumPatterns == 3

\* bounds of the file names
MaxLead == 4
MaxUpper == 3
MaxCodeDigits == 11

\* "321AC0000000001_19470503_000000000000000"
ExampleName ==
  <<"3", "2", "1", "A", "C">> \o Rep("0", 9) \o <<"1", "_">>
    \o <<"1", "9", "4", "7", "0", "5", "0", "3", "_">> \o Rep("0", 15)

NameHeads == {<<>>, <<"l", "_">>}
NameTails ==
  { <<>>,
    <<"_", "1", "9", "4", "7", "0", "5", "0", "3", "_", "l">>,
    <<"_", "0", "0", "0", "0", "0", "0", "0", "0", "_", "l">> }

FileNames ==
  {ExampleName} \cup
  { h \o Rep("3", d1) \o Rep("A", u) \o Rep("0", d2) \o t :
      h \in NameHeads, d1 \in 0..MaxLead, u \in 0..MaxUpper,
      d2 \in 0..MaxCodeDigits, t \in NameTails }

\* ---- extractDate
DigitValue ==
  ("0" :> 0) @@ ("1" :> 1) @@ ("2" :> 2) @@ ("3" :> 3) @@ ("4" :> 4) @@
  ("5" :> 5) @@ ("7" :> 7) @@ ("9" :> 9)

\* parseInt of a string of digits
RECURSIVE ParseInt(_)
ParseInt(s) ==
  IF s = <<>> THEN 0
  ELSE 10 * ParseInt(SubSeq(s, 1, Len(s) - 1)) + DigitValue[s[Len(s)]]

\* fileName.match(/(\d{8})/): the index of the leftmost run of eight digits,
\* or 0 for null
RECURSIVE SearchEightDigits(_, _)
SearchEightDigits(s, i) ==
  IF i > Len(s) THEN 0
  ELSE IF DigitRun(s, i) >= 8 THEN i
       ELSE SearchEightDigits(s, i + 1)

IsLeapYear(y) == (y % 4 = 0 /\ y % 100 # 0) \/ y % 400 = 0

DaysInMonth(y, m) ==
  IF m = 2 THEN (IF IsLeapYear(y) THEN 29 ELSE 28)
  ELSE IF m \in {4, 6, 9, 11} THEN 30 ELSE 31

NoDate == [year |-> 0, month |-> 0, day |-> 0]

\* new Date(year, month - 1, day) for month in 1..12 and day in 1..31: a day
\* past the end of the month rolls over into the next month
NewDate(year, month, day) ==
  IF day <= DaysInMonth(year, month)
  THEN [year |-> year, month |-> month, day |-> day]
  ELSE IF month = 12
       THEN [year |-> year + 1, month |-> 1, day |-> day - DaysInMonth(year, month)]
       ELSE [year |-> year, month |-> month + 1, day |-> day - DaysInMonth(year, month)]

MinYear == 1800

ExtractDateOf(s) ==
  LET at == SearchEightDigits(s, 1)
  IN IF at = 0 THEN NoDate
     ELSE LET dateStr == SubSeq(s, at, at + 7)
              year == ParseInt(SubSeq(dateStr, 1, 4))
              month == ParseInt(SubSeq(dateStr, 5, 6))
              day == ParseInt(SubSeq(dateStr, 7, 8))
          IN IF /\ dateStr # Rep("0", 8)
                /\ year > MinYear /\ month >= 1 /\ month <= 12
                /\ day >= 1 /\ day <= 31
             THEN NewDate(year, month, day)
             ELSE NoDate

MetaInit ==
  /\ fileName \in FileNames
  /\ patIdx = 1
  /\ lawNumber = None
  /\ mpc = "try"
  /\ date = NoDate
  /\ dpc = "try"

MetaIdle ==
  /\ fileName = <<>>
  /\ patIdx = 1
  /\ lawNumber = None
  /\ mpc = "idle"
  /\ date = NoDate
  /\ dpc = "idle"

\* lines 98-103: one iteration of the loop over patterns
ExtractLawNumberStep ==
  /\ mpc = "try"
  /\ patIdx <= NumPatterns
  /\ LET match == MatchPattern(fileName, patIdx)
     IN IF match # None
        THEN /\ lawNumber' = match
             /\ mpc' = "done"
             /\ UNCHANGED patIdx
        ELSE /\ patIdx' = patIdx + 1
             /\ UNCHANGED <<lawNumber, mpc>>
  /\ UNCHANGED <<fileName, date, dpc, notMetaVars>>

\* line 105: no pattern matched
ExtractLawNumberNone ==
  /\ mpc = "try"
  /\ patIdx > NumPatterns
  /\ lawNumber' = None
  /\ mpc' = "done"
  /\ UNCHANGED <<fileName, patIdx, date, dpc, notMetaVars>>

\* extractMetadataFromPath line 64: extractDate runs once extractLawNumber
\* has returned
ExtractDate ==
  /\ mpc = "done"
  /\ dpc = "try"
  /\ date' = ExtractDateOf(fileName)
  /\ dpc' = "done"
  /\ UNCHANGED <<fileName, patIdx, lawNumber, mpc, notMetaVars>>

MetaNext == ExtractLawNumberStep \/ ExtractLawNumberNone \/ ExtractDate

-----------------------------------------------------------------------------
(***************************************************************************)
(* ProviderFactory.  Time stamps, latencies and error texts of the health  *)
(* status are left out; what a provider answers to a probe or to a call is *)
(* the environment's choice at every probe and call.                       *)
(***************************************************************************)
\* the providers the chains of the model are drawn from; the other values of
\* type AIProvider ('anthropic', 'local') cannot be constructed at all
ChainProviders == {"openai", "vertexai", "gemini"}

\* bounds of the provider model
MaxFallback == 1
MaxCreates == 2
MaxRounds == 1
MaxInvocations == 1
MaxTokens == 1

\* the sequences without repetition over S of length at most n
RECURSIVE DistinctSeqs(_, _)
DistinctSeqs(S, n) ==
  IF n = 0 THEN {<<>>}
  ELSE LET shorter == DistinctSeqs(S, n - 1)
       IN shorter \cup
          {Append(q, x) : q \in {t \in shorter : Len(t) = n - 1}, x \in S}

NoRepeat(q) == \A i, j \in 1..Len(q) : i # j => q[i] # q[j]

\* ProviderConfig: a primary, an ordered fallback list that names every
\* provider once, the health check interval (0 disables), and the set of
\* providers whose configuration block (credentials) is present: all of them,
\* or all but one provider of the list
FallbackLists(p) ==
  {q \in DistinctSeqs(ChainProviders, MaxFallback) :
     NoRepeat(q) /\ \A i \in 1..Len(q) : q[i] # p}

ConfiguredSets(p, f) ==
  {ChainProviders} \cup {ChainProviders \ {x} : x \in {p} \cup {f[i] : i \in 1..Len(f)}}

Configs ==
  UNION { UNION { { [primary |-> p, fallback |-> f, healthCheckInterval |-> h,
                     configured |-> k] :
                      h \in {0, 300000}, k \in ConfiguredSets(p, f) } :
                  f \in FallbackLists(p) } :
          p \in ChainProviders }

\* a provider list that tries the fallback providers before the primary
ProviderChainFallbackFirst(cfg) == cfg.fallback \o <<cfg.primary>>

\* const providers = [this.config.primary, ...this.config.fallback]
ProviderChain(cfg) == <<cfg.primary>> \o cfg.fallback

\* createEmbeddingServiceForProvider returns a service (TRUE) or throws (FALSE)
CanCreateEmbedding(cfg, p) ==
  CASE p = "openai" -> "openai" \in cfg.configured
    [] p = "vertexai" -> "vertexai" \in cfg.configured
    [] p = "gemini" -> "gemini" \in cfg.configured
    [] OTHER -> FALSE

\* createLLMServiceForProvider returns a service (TRUE) or throws (FALSE)
CanCreateLLM(cfg, p) ==
  CASE p = "openai" -> "openai" \in cfg.configured
    [] p = "vertexai" -> "vertexai" \in cfg.configured
    [] OTHER -> FALSE

CanCreate(cfg, kind, p) ==
  IF kind = "embedding" THEN CanCreateEmbedding(cfg, p) ELSE CanCreateLLM(cfg, p)

\* the entry updateHealthStatus starts from when the map has none
DefaultStatus == [known |-> FALSE, healthy |-> TRUE, errorCount |-> 0, errorRate |-> 0]

\* updateHealthStatus(provider, healthy, ...)
UpdateHealthStatus(hs, p, healthy) ==
  LET current == hs[p]
      count == IF healthy THEN current.errorCount ELSE current.errorCount + 1
  IN [hs EXCEPT ![p] = [known |-> TRUE,
                        healthy |-> healthy,
                        errorCount |-> count,
                        errorRate |-> Min((count * 100) \div 100, 100)]]

\* the write of the catch blocks and of a failed probe
RecordUnhealthy(hs, p) == UpdateHealthStatus(hs, p, FALSE)

\* trackCost: the cost in units of 10^-9 dollar
Cost(provider, operation, inputTokens, outputTokens) ==
  CASE provider = "openai" ->
         IF operation = "embedding" THEN inputTokens * 20
         ELSE inputTokens * 500 + outputTokens * 1500
    [] provider \in {"vertexai", "gemini"} ->
         IF operation = "embedding" THEN inputTokens * 150
         ELSE inputTokens * 2500 + outputTokens * 7500
    [] OTHER -> 0

LedgerCap == 1000

\* trackCost keeping the oldest records instead of the most recent
TrackCostKeepOldest(ledger, provider, operation, inputTokens, outputTokens) ==
  LET pushed == Append(ledger, [provider |-> provider,
                                operation |-> operation,
                                inputTokens |-> inputTokens,
                                outputTokens |-> outputTokens,
                                cost |-> Cost(provider, operation, inputTokens, outputTokens)])
  IN IF Len(pushed) > LedgerCap THEN SubSeq(pushed, 1, LedgerCap) ELSE pushed

TrackCost(ledger, provider, operation, inputTokens, outputTokens) ==
  LET pushed == Append(ledger, [provider |-> provider,
                                operation |-> operation,
                                inputTokens |-> inputTokens,
                                outputTokens |-> outputTokens,
                                cost |-> Cost(provider, operation, inputTokens, outputTokens)])
  IN IF Len(pushed) > LedgerCap
     THEN SubSeq(pushed, Len(pushed) - LedgerCap + 1, Len(pushed))
     ELSE pushed

\* a call of createEmbeddingService or createLLMService
FreeCreate ==
  [state |-> "free", kind |-> "embedding", idx |-> 1, tag |-> None,
   errorProvider |-> None, attempts |-> <<>>, alone |-> TRUE, unhealthyAtEnd |-> {}]

\* a run of performHealthChecks
FreeRound == [state |-> "free", idx |-> 1, embeddingHealthy |-> FALSE, llmHealthy |-> FALSE]

NoInvoke ==
  [provider |-> None, kind |-> None, op |-> None, outcome |-> None,
   errorProvider |-> None, tried |-> {}, healthyAtCall |-> {}, unhealthyAtCall |-> {}]

HealthyIn(hs) == {p \in DOMAIN hs : hs[p].known /\ hs[p].healthy}
UnhealthyIn(hs) == {p \in DOMAIN hs : hs[p].known /\ ~hs[p].healthy}

\* the constructor, with initializeHealthChecks
ProvInit ==
  /\ config \in Configs
  /\ healthStatus = [p \in ChainProviders |-> DefaultStatus]
  /\ costTracking = <<>>
  /\ timer = IF config.healthCheckInterval > 0 THEN "active" ELSE "none"
  /\ creates = [c \in 1..MaxCreates |-> FreeCreate]
  /\ services = {}
  /\ rounds = [r \in 1..MaxRounds |-> FreeRound]
  /\ invocations = 0
  /\ lastInvoke = NoInvoke

ProvIdle ==
  /\ config = [primary |-> "openai", fallback |-> <<>>, healthCheckInterval |-> 0,
               configured |-> {}]
  /\ healthStatus = [p \in ChainProviders |-> DefaultStatus]
  /\ costTracking = <<>>
  /\ timer = "none"
  /\ creates = [c \in 1..MaxCreates |-> FreeCreate]
  /\ services = {}
  /\ rounds = [r \in 1..MaxRounds |-> FreeRound]
  /\ invocations = 0
  /\ lastInvoke = NoInvoke

\* a write to the health status by anything but call c happened while the
\* calls that are running were in flight
Overtaken(cs, c) ==
  [d \in DOMAIN cs |->
     IF d # c /\ cs[d].state = "running" THEN [cs[d] EXCEPT !.alone = FALSE] ELSE cs[d]]

\* createEmbeddingService / createLLMService is called
CreateStart(c, kind) ==
  /\ creates[c].state = "free"
  /\ c > 1 => creates[c - 1].state # "free"
  /\ creates' = [creates EXCEPT ![c] = [FreeCreate EXCEPT !.state = "running", !.kind = kind]]
  /\ UNCHANGED <<config, healthStatus, costTracking, timer, services, rounds,
                 invocations, lastInvoke, notProvVars>>

\* the call after the attempt at providers[idx] failed: the next turn of the
\* for loop, or the throw of ProviderError(..., this.config.primary) after it
CreateAdvance(call, cfg, hs, attempt) ==
  LET last == call.idx = Len(ProviderChain(cfg))
  IN [call EXCEPT !.attempts = Append(call.attempts, attempt),
                  !.idx = call.idx + 1,
                  !.state = IF last THEN "thrown" ELSE "running",
                  !.errorProvider = IF last THEN cfg.primary ELSE None,
                  !.unhealthyAtEnd = IF last THEN UnhealthyIn(hs) ELSE {}]

\* one turn of the for loop in which create...ServiceForProvider throws
CreateConstructFails(c) ==
  LET call == creates[c]
      p == ProviderChain(config)[call.idx]
      hs == RecordUnhealthy(healthStatus, p)
  IN /\ call.state = "running"
     /\ ~CanCreate(config, call.kind, p)
     /\ healthStatus' = hs
     /\ creates' = [Overtaken(creates, c) EXCEPT ![c] =
          CreateAdvance(call, config, hs,
            [provider |-> p, probed |-> FALSE, passed |-> FALSE,
             recordedHealthy |-> hs[p].known /\ hs[p].healthy])]
     /\ UNCHANGED <<config, costTracking, timer, services, rounds, invocations,
                    lastInvoke, notProvVars>>

\* one turn of the for loop in which the service is constructed and
\* test...Service answers ok
CreateProbe(c, ok) ==
  LET call == creates[c]
      p == ProviderChain(config)[call.idx]
      hs == UpdateHealthStatus(healthStatus, p, ok)
      attempt == [provider |-> p, probed |-> TRUE, passed |-> ok,
                  recordedHealthy |-> hs[p].known /\ hs[p].healthy]
  IN /\ call.state = "running"
     /\ CanCreate(config, call.kind, p)
     /\ healthStatus' = hs
     /\ IF ok
        THEN /\ creates' = [Overtaken(creates, c) EXCEPT ![c] =
                  [call EXCEPT !.attempts = Append(call.attempts, attempt),
                               !.state = "returned",
                               !.tag = p,
                               !.unhealthyAtEnd = UnhealthyIn(hs)]]
             /\ services' = services \cup {[kind |-> call.kind, provider |-> p]}
        ELSE /\ creates' = [Overtaken(creates, c) EXCEPT ![c] =
                  CreateAdvance(call, config, hs, attempt)]
             /\ UNCHANGED services
     /\ UNCHANGED <<config, costTracking, timer, rounds, invocations, lastInvoke,
                    notProvVars>>

\* the methods of a wrapped service
Operations(kind) ==
  IF kind = "embedding" THEN {"generateEmbedding", "generateEmbeddings"}
  ELSE {"generateResponse", "generateRelatedQuestions"}

OperationKind(op) ==
  IF op \in {"generateEmbedding", "generateEmbeddings"} THEN "embedding" ELSE "generation"

\* a call through a wrapped service: the provider answers (ok) or fails
InvokeCall(svc, op, ok, inputTokens, outputTokens) ==
  /\ svc \in services
  /\ op \in Operations(svc.kind)
  /\ invocations' = invocations + 1
  /\ costTracking' =
       IF ok /\ op # "generateRelatedQuestions"
             /\ svc.provider \in {"openai", "vertexai", "gemini"}
       THEN TrackCost(costTracking, svc.provider, OperationKind(op), inputTokens,
                      IF OperationKind(op) = "embedding" THEN 0 ELSE outputTokens)
       ELSE costTracking
  /\ lastInvoke' =
       [provider |-> svc.provider,
        kind |-> svc.kind,
        op |-> op,
        outcome |-> IF ok THEN "ok"
                    ELSE IF op = "generateRelatedQuestions" THEN "empty"
                    ELSE "ProviderError",
        errorProvider |-> IF ok \/ op = "generateRelatedQuestions" THEN None
                          ELSE svc.provider,
        tried |-> {svc.provider},
        healthyAtCall |-> HealthyIn(healthStatus),
        unhealthyAtCall |-> UnhealthyIn(healthStatus)]
  /\ UNCHANGED <<config, healthStatus, timer, creates, services, rounds>>

Invoke(svc, op, ok, inputTokens, outputTokens) ==
  /\ invocations < MaxInvocations
  /\ InvokeCall(svc, op, ok, inputTokens, outputTokens)
  /\ UNCHANGED notProvVars

\* an interval timer that goes on firing after clearInterval
TimerFireAfterClear(r) ==
  /\ timer \in {"active", "cleared"}
  /\ rounds[r].state = "free"
  /\ r > 1 => rounds[r - 1].state # "free"
  /\ rounds' = [rounds EXCEPT ![r] = [FreeRound EXCEPT !.state = "embedding"]]
  /\ UNCHANGED <<config, healthStatus, costTracking, timer, creates, services,
                 invocations, lastInvoke, notProvVars>>

\* the interval timer fires and performHealthChecks starts
TimerFire(r) ==
  /\ timer = "active"
  /\ rounds[r].state = "free"
  /\ r > 1 => rounds[r - 1].state # "free"
  /\ rounds' = [rounds EXCEPT ![r] = [FreeRound EXCEPT !.state = "embedding"]]
  /\ UNCHANGED <<config, healthStatus, costTracking, timer, creates, services,
                 invocations, lastInvoke, notProvVars>>

\* the round goes on to the next provider, or ends
RoundAdvance(round, cfg) ==
  IF round.idx = Len(ProviderChain(cfg))
  THEN [FreeRound EXCEPT !.state = "done", !.idx = round.idx + 1]
  ELSE [FreeRound EXCEPT !.state = "embedding", !.idx = round.idx + 1]

\* performHealthChecks: constructing one of the two services throws
RoundConstructFails(r) ==
  LET p == ProviderChain(config)[rounds[r].idx]
  IN /\ rounds[r].state = "embedding"
     /\ ~(CanCreateEmbedding(config, p) /\ CanCreateLLM(config, p))
     /\ healthStatus' = RecordUnhealthy(healthStatus, p)
     /\ rounds' = [rounds EXCEPT ![r] = RoundAdvance(rounds[r], config)]
     /\ creates' = Overtaken(creates, 0)
     /\ UNCHANGED <<config, costTracking, timer, services, invocations, lastInvoke,
                    notProvVars>>

\* performHealthChecks: testEmbeddingService answers
RoundProbeEmbedding(r, ok) ==
  LET p == ProviderChain(config)[rounds[r].idx]
  IN /\ rounds[r].state = "embedding"
     /\ CanCreateEmbedding(config, p) /\ CanCreateLLM(config, p)
     /\ healthStatus' = UpdateHealthStatus(healthStatus, p, ok)
     /\ rounds' = [rounds EXCEPT ![r].state = "llm", ![r].embeddingHealthy = ok]
     /\ creates' = Overtaken(creates, 0)
     /\ UNCHANGED <<config, costTracking, timer, services, invocations, lastInvoke,
                    notProvVars>>

\* performHealthChecks: testLLMService answers, and the round records
\* embeddingHealthy && llmHealthy
RoundProbeLLM(r, ok) ==
  LET p == ProviderChain(config)[rounds[r].idx]
  IN /\ rounds[r].state = "llm"
     /\ healthStatus' = UpdateHealthStatus(UpdateHealthStatus(healthStatus, p, ok), p,
                                           rounds[r].embeddingHealthy /\ ok)
     /\ rounds' = [rounds EXCEPT ![r] = RoundAdvance(rounds[r], config)]
     /\ creates' = Overtaken(creates, 0)
     /\ UNCHANGED <<config, costTracking, timer, services, invocations, lastInvoke,
                    notProvVars>>

\* dispose()
Dispose ==
  /\ timer' = IF timer = "active" THEN "cleared" ELSE timer
  /\ UNCHANGED <<config, healthStatus, costTracking, creates, services, rounds,
                 invocations, lastInvoke, notProvVars>>

\* the calls of createEmbeddingService and createLLMService, interleaved at
\* their awaits
CreateNext ==
  \/ \E c \in 1..MaxCreates, kind \in {"embedding", "llm"} : CreateStart(c, kind)
  \/ \E c \in 1..MaxCreates : CreateConstructFails(c)
  \/ \E c \in 1..MaxCreates, ok \in BOOLEAN : CreateProbe(c, ok)

ProvNext ==
  \/ CreateNext
  \/ \E svc \in services, op \in {"generateEmbedding", "generateEmbeddings",
                                  "generateResponse", "generateRelatedQuestions"},
        ok \in BOOLEAN, inputTokens \in 1..MaxTokens, outputTokens \in 1..MaxTokens :
       Invoke(svc, op, ok, inputTokens, outputTokens)
  \/ \E r \in 1..MaxRounds : TimerFire(r)
  \/ \E r \in 1..MaxRounds : RoundConstructFails(r)
  \/ \E r \in 1..MaxRounds, ok \in BOOLEAN : RoundProbeEmbedding(r, ok)
  \/ \E r \in 1..MaxRounds, ok \in BOOLEAN : RoundProbeLLM(r, ok)
  \/ Dispose

-----------------------------------------------------------------------------
(***************************************************************************)
(* The interval timer, the rounds of performHealthChecks it starts, and    *)
(* dispose().                                                              *)
(***************************************************************************)
MaxTimerRounds == 2

TimerInit ==
  /\ config \in Configs
  /\ healthStatus = [p \in ChainProviders |-> DefaultStatus]
  /\ costTracking = <<>>
  /\ timer = IF config.healthCheckInterval > 0 THEN "active" ELSE "none"
  /\ creates = [c \in 1..MaxCreates |-> FreeCreate]
  /\ services = {}
  /\ rounds = [r \in 1..MaxTimerRounds |-> FreeRound]
  /\ invocations = 0
  /\ lastInvoke = NoInvoke

TimerNext ==
  \/ \E r \in 1..MaxTimerRounds : TimerFire(r)
  \/ \E r \in 1..MaxTimerRounds : RoundConstructFails(r)
  \/ \E r \in 1..MaxTimerRounds, ok \in BOOLEAN : RoundProbeEmbedding(r, ok)
  \/ \E r \in 1..MaxTimerRounds, ok \in BOOLEAN : RoundProbeLLM(r, ok)
  \/ Dispose

-----------------------------------------------------------------------------
(***************************************************************************)
(* updateHealthStatus under any sequence of observations.                  *)
(***************************************************************************)
MaxObservations == 3

NoObservations == [p \in ChainProviders |-> <<>>]
NoWorkload == [kind |-> None, provider |-> None, op |-> None, outputTokens |-> 0]

CallerIdle ==
  /\ observations = NoObservations
  /\ workload = NoWorkload

\* a probe or a round calls updateHealthStatus(provider, healthy)
ObserveHealth(p, healthy) ==
  /\ Len(observations[p]) < MaxObservations
  /\ healthStatus' = UpdateHealthStatus(healthStatus, p, healthy)
  /\ observations' = [observations EXCEPT ![p] = Append(@, healthy)]
  /\ UNCHANGED <<config, costTracking, timer, creates, services, rounds, invocations,
                 lastInvoke, workload, chunkVars, metaVars, queryVars, storeVars,
                 laterVars>>

HealthNext == \E p \in ChainProviders, healthy \in BOOLEAN : ObserveHealth(p, healthy)

-----------------------------------------------------------------------------
(***************************************************************************)
(* The cost ledger under a long run of calls.  A caller holds one wrapped  *)
(* service of the primary provider and keeps calling one of its methods;   *)
(* the k-th call has k input tokens, and every call succeeds.              *)
(***************************************************************************)
MaxOverflow == 2

MaxTracked == LedgerCap + MaxOverflow

Workloads ==
  { [kind |-> kind, provider |-> p, op |-> op, outputTokens |-> out] :
      kind \in {"embedding", "llm"}, p \in ChainProviders,
      op \in {"generateEmbedding", "generateEmbeddings", "generateResponse",
               "generateRelatedQuestions"},
      out \in 1..MaxTokens }

\* the methods a service of that kind has, at a provider that can serve it
IsWorkload(w) ==
  /\ w.op \in Operations(w.kind)
  /\ w.kind = "llm" => w.provider # "gemini"

LedgerConfig(p) ==
  [primary |-> p, fallback |-> <<>>, healthCheckInterval |-> 0,
   configured |-> ChainProviders]

\* the state in which createEmbeddingService or createLLMService has
\* returned the service of the workload at the first attempt
LedgerInit ==
  /\ workload \in {w \in Workloads : IsWorkload(w)}
  /\ observations = NoObservations
  /\ config = LedgerConfig(workload.provider)
  /\ healthStatus = UpdateHealthStatus([p \in ChainProviders |-> DefaultStatus],
                                       workload.provider, TRUE)
  /\ costTracking = <<>>
  /\ timer = "none"
  /\ creates = [c \in 1..MaxCreates |->
                  IF c = 1
                  THEN [FreeCreate EXCEPT
                          !.state = "returned", !.kind = workload.kind,
                          !.tag = workload.provider,
                          !.attempts = <<[provider |-> workload.provider,
                                          probed |-> TRUE, passed |-> TRUE,
                                          recordedHealthy |-> TRUE]>>]
                  ELSE FreeCreate]
  /\ services = {[kind |-> workload.kind, provider |-> workload.provider]}
  /\ rounds = [r \in 1..MaxRounds |-> FreeRound]
  /\ invocations = 0
  /\ lastInvoke = NoInvoke

\* the next call of the workload
LedgerInvoke ==
  /\ invocations < MaxTracked
  /\ InvokeCall([kind |-> workload.kind, provider |-> workload.provider],
                workload.op, TRUE, invocations + 1, workload.outputTokens)
  /\ UNCHANGED notProvVars

LedgerNext == LedgerInvoke

\* getCostSummary()
\* the sum of the costs of records lo..hi, taken in halves (integer addition
\* is associative, so this is the sum that reduce computes from the left)
RECURSIVE SumCostRange(_, _, _)
SumCostRange(ledger, lo, hi) ==
  IF lo > hi THEN 0
  ELSE IF lo = hi THEN ledger[lo].cost
  ELSE LET mid == (lo + hi) \div 2
       IN SumCostRange(ledger, lo, mid) + SumCostRange(ledger, mid + 1, hi)

SumCost(ledger) == SumCostRange(ledger, 1, Len(ledger))

GetCostSummary(ledger) ==
  [total |-> SumCost(ledger),
   byProvider |-> [p \in {ledger[k].provider : k \in 1..Len(ledger)} |->
                     SumCost(SelectSeq(ledger, LAMBDA rec : rec.provider = p))]]

-----------------------------------------------------------------------------
(***************************************************************************)
(* QueryProcessor and ConversationManager.  An object is a record, and a   *)
(* property that is undefined is a field the record does not have.  Time   *)
(* stamps (createdAt, lastActivity, timestamp) are left out.  What the     *)
(* vector store and the LLM service answer, or that they reject, is the    *)
(* environment's choice at every await.                                    *)
(***************************************************************************)
\* calls of processQuery; all of them may be suspended at an await at the
\* same time
MaxQueryCalls == 2

EmptyObject == [k \in {} |-> ""]
Has(obj, key) == key \in DOMAIN obj
Optional(key, values) == {EmptyObject} \cup {key :> v : v \in values}

\* the chunks in the index with the metadata addDocuments stores, and the
\* similarity (1 - distance, in hundredths) of each chunk to the query
Corpus ==
  { [id |-> "k1", category |-> "321", era |-> "showa", lawNumber |-> "321AC"],
    [id |-> "k2", category |-> "322", era |-> "heisei", lawNumber |-> "322AC"],
    [id |-> "k3", category |-> "321", era |-> "heisei", lawNumber |-> "321CO"],
    [id |-> "k4", category |-> "321", era |-> "showa", lawNumber |-> "321M1"] }
Similarity == [k1 |-> 80, k2 |-> 90, k3 |-> 60, k4 |-> 20]

\* ---- requests
MetadataFilters == [category |-> "321", era |-> "showa"]
\* request.filters as the README and the frontend send it, { category, era },
\* and as the type QueryRequest declares it, a SearchOptions { filters: ... }
DocumentedFilters == MetadataFilters
TypedFilters == [filters |-> MetadataFilters]
FilterForms == {DocumentedFilters, TypedFilters}
ClientIds == {"", "c1"}
Languages == {"en"}

\* the requests a caller may send; language 'ja' is what a request without a
\* language gets
Requests ==
  { ("query" :> "q") @@ a @@ b @@ c :
      a \in Optional("conversationId", ClientIds),
      b \in Optional("language", Languages),
      c \in Optional("filters", FilterForms) }

\* ---- ConversationManager
HasConversation(convs, id) == id \in DOMAIN convs

CreateConversation(convs, id) ==
  [x \in DOMAIN convs \cup {id} |->
     IF x = id THEN [id |-> id, messages |-> <<>>] ELSE convs[x]]

\* a variant of addMessage that stores the message in place of the list
AddMessageReplacing(convs, id, message) ==
  IF id \in DOMAIN convs
  THEN [convs EXCEPT ![id].messages = <<message>>]
  ELSE convs

\* a variant of addMessage that puts the message at the front of the list
AddMessageFirst(convs, id, message) ==
  IF id \in DOMAIN convs
  THEN [convs EXCEPT ![id].messages = <<message>> \o @]
  ELSE convs

AddMessage(convs, id, message) ==
  IF id \in DOMAIN convs
  THEN [convs EXCEPT ![id].messages = Append(@, message)]
  ELSE convs

\* Array.prototype.slice(-limit)
LastN(q, n) == SubSeq(q, Max(1, Len(q) - n + 1), Len(q))

GetConversationHistory(convs, id, limit) ==
  IF id \notin DOMAIN convs THEN <<>> ELSE LastN(convs[id].messages, limit)

CreateSourceCitations(searchResults) ==
  [i \in 1..Len(searchResults) |->
     [chunkId |-> searchResults[i].chunk.id, score |-> searchResults[i].score]]

\* ---- the vector store's search
WhereKeys == {"category", "lawNumber", "era"}

WhereClause(options) ==
  IF Has(options, "filters")
  THEN LET filters == options.filters
       IN [k \in {x \in WhereKeys \cap DOMAIN filters : filters[x] # ""} |-> filters[k]]
  ELSE EmptyObject

Matches(d, where) == \A k \in DOMAIN where : d[k] = where[k]

RECURSIVE ByScore(_)
ByScore(S) ==
  IF S = {} THEN <<>>
  ELSE LET top == CHOOSE d \in S : \A e \in S : Similarity[e.id] <= Similarity[d.id]
       IN <<top>> \o ByScore(S \ {top})

\* collection.query with nResults = limit and the where clause, then the
\* threshold on the similarity; the result is ordered by descending score
SearchByEmbedding(options) ==
  LET nearest == ByScore({d \in Corpus : Matches(d, WhereClause(options))})
      queried == SubSeq(nearest, 1, Min(options.limit, Len(nearest)))
      AboveThreshold(d) == Similarity[d.id] >= options.threshold
      kept == SelectSeq(queried, AboveThreshold)
  IN [i \in 1..Len(kept) |-> [chunk |-> kept[i], score |-> Similarity[kept[i].id]]]

\* ---- processQuery
SearchLimit == 10
SearchThreshold == 30
HistoryLimit == 6

UuidV4(n) == "uuid-" \o ToString(n)

\* conversationId is used when it is truthy: present and not the empty string
Truthy(obj, key) == Has(obj, key) /\ obj[key] # ""

ActualConversationId(request, n) ==
  IF Truthy(request, "conversationId") THEN request.conversationId ELSE UuidV4(n)

\* language = 'ja' in the destructuring
LanguageOf(request) == IF Has(request, "language") THEN request.language ELSE "ja"

\* filters: filters?.filters
SearchOptionsOf(request) ==
  [limit |-> SearchLimit, threshold |-> SearchThreshold] @@
  ( IF Has(request, "filters") /\ Has(request.filters, "filters")
    THEN "filters" :> request.filters.filters
    ELSE EmptyObject )

ApologyEn == "I apologize, but I encountered an error while processing your query. Please try again."
ApologyJa == "Moushiwake gozaimasen ga, kueri no shori-chuu ni eraa ga hassei shimashita."

\* a variant of the message selection that ignores the language
ErrorMessageJapaneseOnly(language) == ApologyJa

ErrorMessage(language) == IF language = "en" THEN ApologyEn ELSE ApologyJa

Answers == {"a1"}
RelatedQuestionLists == {<<"r1">>}

FreeQuery ==
  [pc |-> "free", request |-> EmptyObject, actualConversationId |-> "",
   searchOptions |-> EmptyObject, searchResults |-> <<>>,
   conversationHistory |-> <<>>, answer |-> "", failed |-> FALSE,
   response |-> EmptyObject]

\* the call has returned: its locals are gone, what is kept is the request it
\* was made with, what it returned and whether it went through the catch block
Returned(call, failed, response) ==
  [FreeQuery EXCEPT !.pc = "returned", !.request = call.request,
                    !.failed = failed, !.response = response]

QueryInit ==
  /\ conversations = EmptyObject
  /\ created = EmptyObject
  /\ uuidCount = 0
  /\ qcalls = [c \in 1..MaxQueryCalls |-> FreeQuery]

\* lines 20-36: the conversation is looked up or created and the search is
\* issued; the call is suspended at the await of vectorStore.search
ProcessQueryStart(c, request) ==
  /\ qcalls[c].pc = "free"
  /\ \A b \in 1..(c - 1) : qcalls[b].pc # "free"
  /\ LET id == ActualConversationId(request, uuidCount + 1)
     IN /\ uuidCount' = IF Truthy(request, "conversationId") THEN uuidCount
                        ELSE uuidCount + 1
        /\ IF HasConversation(conversations, id)
           THEN UNCHANGED <<conversations, created>>
           ELSE /\ conversations' = CreateConversation(conversations, id)
                /\ created' = [x \in DOMAIN created \cup {id} |->
                                 IF x = id
                                 THEN (IF id \in DOMAIN created THEN created[id] + 1 ELSE 1)
                                 ELSE created[x]]
        /\ qcalls' = [qcalls EXCEPT ![c] =
                        [FreeQuery EXCEPT !.pc = "search",
                                          !.request = request,
                                          !.actualConversationId = id,
                                          !.searchOptions = SearchOptionsOf(request)]]
  /\ UNCHANGED notQueryVars

\* lines 36-47: the search resolves, the history is read and generateResponse
\* is issued
SearchResolves(c) ==
  /\ qcalls[c].pc = "search"
  /\ qcalls' = [qcalls EXCEPT
       ![c].pc = "respond",
       ![c].searchResults = SearchByEmbedding(qcalls[c].searchOptions),
       ![c].conversationHistory =
          GetConversationHistory(conversations, qcalls[c].actualConversationId,
                                 HistoryLimit)]
  /\ UNCHANGED <<conversations, created, uuidCount, notQueryVars>>

\* lines 43-52: generateResponse resolves and generateRelatedQuestions is
\* issued
ResponseResolves(c, answer) ==
  /\ qcalls[c].pc = "respond"
  /\ qcalls' = [qcalls EXCEPT ![c].pc = "related", ![c].answer = answer]
  /\ UNCHANGED <<conversations, created, uuidCount, notQueryVars>>

\* lines 49-77: generateRelatedQuestions resolves; the citations are built,
\* both messages are added and the response is returned
RelatedQuestionsResolve(c, relatedQuestions) ==
  /\ qcalls[c].pc = "related"
  /\ LET call == qcalls[c]
         id == call.actualConversationId
         sources == CreateSourceCitations(call.searchResults)
         userMessage == [role |-> "user", content |-> call.request.query]
         assistantMessage == [role |-> "assistant", content |-> call.answer,
                              sources |-> sources]
     IN /\ conversations' = AddMessage(AddMessage(conversations, id, userMessage),
                                       id, assistantMessage)
        /\ qcalls' = [qcalls EXCEPT ![c] =
             Returned(call, FALSE,
                      [answer |-> call.answer, sources |-> sources,
                       relatedQuestions |-> relatedQuestions,
                       conversationId |-> id])]
  /\ UNCHANGED <<created, uuidCount, notQueryVars>>

\* lines 79-92: the awaited call rejects; the catch block returns the apology
AwaitRejects(c) ==
  /\ qcalls[c].pc \in {"search", "respond", "related"}
  /\ qcalls' = [qcalls EXCEPT ![c] =
       Returned(qcalls[c], TRUE,
                [answer |-> ErrorMessage(LanguageOf(qcalls[c].request)),
                 sources |-> <<>>, relatedQuestions |-> <<>>,
                 conversationId |-> qcalls[c].actualConversationId])]
  /\ UNCHANGED <<conversations, created, uuidCount, notQueryVars>>

QueryNext ==
  \/ \E c \in 1..MaxQueryCalls, request \in Requests :
       ProcessQueryStart(c, request)
  \/ \E c \in 1..MaxQueryCalls : SearchResolves(c)
  \/ \E c \in 1..MaxQueryCalls, answer \in Answers : ResponseResolves(c, answer)
  \/ \E c \in 1..MaxQueryCalls, relatedQuestions \in RelatedQuestionLists :
       RelatedQuestionsResolve(c, relatedQuestions)
  \/ \E c \in 1..MaxQueryCalls : AwaitRejects(c)

-----------------------------------------------------------------------------
(***************************************************************************)
(* ChromaVectorStore.searchByEmbedding over any answer of the backing      *)
(* store.  Distances, scores and thresholds are counted in hundredths.     *)
(* The backing store answers a query with at most nResults candidates that *)
(* satisfy the where clause, in the order and with the distances it        *)
(* chooses.                                                                *)
(***************************************************************************)
MaxLimit == 2

DefaultLimit == 10
DefaultThreshold == 0

Distances == {0, 50, 150}
Thresholds == {-100, 30}

\* the values of options: every property is optional
SearchOptionsValues ==
  { a @@ b @@ c :
      a \in Optional("limit", 1..MaxLimit),
      b \in Optional("threshold", Thresholds),
      c \in Optional("filters", {MetadataFilters}) }

\* const { limit = 10, threshold = 0.0, filters } = options
LimitOf(options) == IF Has(options, "limit") THEN options.limit ELSE DefaultLimit
ThresholdOf(options) ==
  IF Has(options, "threshold") THEN options.threshold ELSE DefaultThreshold

CorpusIds == {d.id : d \in Corpus}
CorpusChunk(id) == CHOOSE d \in Corpus : d.id = id

\* the sequences of at most n candidates with distinct ids taken from ids
RECURSIVE CandidateLists(_, _)
CandidateLists(ids, n) ==
  IF n = 0 \/ ids = {} THEN {<<>>}
  ELSE {<<>>} \cup
       UNION { { <<[id |-> id, distance |-> dist]>> \o rest :
                   dist \in Distances, rest \in CandidateLists(ids \ {id}, n - 1) } :
               id \in ids }

\* what collection.query may answer to queryParams
StoreAnswers(options) ==
  CandidateLists({id \in CorpusIds : Matches(CorpusChunk(id), WhereClause(options))},
                 Min(LimitOf(options), Cardinality(CorpusIds)))

\* lines 207-241: the loop over the answer
RECURSIVE CollectResults(_, _)
CollectResults(answer, threshold) ==
  IF answer = <<>> THEN <<>>
  ELSE LET similarity == 100 - Head(answer).distance
           rest == CollectResults(Tail(answer), threshold)
       IN IF similarity >= threshold
          THEN <<[chunk |-> CorpusChunk(Head(answer).id), score |-> similarity]>> \o rest
          ELSE rest

\* a variant of the insertion that leaves the list in arrival order
InsertAtEnd(sorted, r) == Append(sorted, r)

\* Array.prototype.sort with (a, b) => b.score - a.score: a stable sort, so
\* results of equal score keep the order they have in the list
RECURSIVE InsertByScore(_, _)
InsertByScore(sorted, r) ==
  IF sorted = <<>> THEN <<r>>
  ELSE IF Head(sorted).score >= r.score
       THEN <<Head(sorted)>> \o InsertByScore(Tail(sorted), r)
       ELSE <<r>> \o sorted

RECURSIVE SortByScore(_)
SortByScore(q) ==
  IF q = <<>> THEN <<>>
  ELSE InsertByScore(SortByScore(SubSeq(q, 1, Len(q) - 1)), q[Len(q)])

SearchResultsOf(answer, options) ==
  SortByScore(CollectResults(answer, ThresholdOf(options)))

NoSearch == [pc |-> "idle", options |-> EmptyObject, answer |-> <<>>, result |-> <<>>]

SearchIdle ==
  /\ searchCall = NoSearch
  /\ prevSearch = NoSearch

\* lines 175-202: the query parameters are built and collection.query is
\* awaited
SearchByEmbeddingStart(options) ==
  /\ searchCall.pc = "idle"
  /\ searchCall' = [NoSearch EXCEPT !.pc = "query", !.options = options]
  /\ UNCHANGED <<prevSearch, addVars, notStoreVars>>

\* lines 202-244: the store answers (with one of StoreAnswers) and the
\* results are returned
QueryResolves(answer) ==
  /\ searchCall.pc = "query"
  /\ searchCall' = [searchCall EXCEPT
       !.pc = "returned",
       !.answer = answer,
       !.result = SearchResultsOf(answer, searchCall.options)]
  /\ UNCHANGED <<prevSearch, addVars, notStoreVars>>

\* getCollection or collection.query rejects: the call raises
QueryRejects ==
  /\ searchCall.pc = "query"
  /\ searchCall' = [searchCall EXCEPT !.pc = "raised"]
  /\ UNCHANGED <<prevSearch, addVars, notStoreVars>>

\* the caller repeats the search with the same options; the call that has
\* returned is kept for comparison
SearchAgain ==
  /\ searchCall.pc = "returned"
  /\ prevSearch.pc = "idle"
  /\ prevSearch' = searchCall
  /\ searchCall' = [NoSearch EXCEPT !.pc = "query", !.options = searchCall.options]
  /\ UNCHANGED <<addVars, notStoreVars>>

SearchNext ==
  \/ \E options \in SearchOptionsValues : SearchByEmbeddingStart(options)
  \/ /\ searchCall.pc = "query"
     /\ \E answer \in StoreAnswers(searchCall.options) : QueryResolves(answer)
  \/ QueryRejects

\* the answers that list the candidates of answer, in any order
SameCandidates(answer) ==
  LET candidates == {answer[k] : k \in 1..Len(answer)}
  IN {p \in [1..Len(answer) -> candidates] : {p[k] : k \in 1..Len(answer)} = candidates}

\* repeated searches over an index that does not change between the calls:
\* the second answer lists the candidates of the first
SearchRepeatNext ==
  \/ \E options \in SearchOptionsValues : SearchByEmbeddingStart(options)
  \/ /\ searchCall.pc = "query" /\ prevSearch.pc = "idle"
     /\ \E answer \in StoreAnswers(searchCall.options) : QueryResolves(answer)
  \/ /\ searchCall.pc = "query" /\ prevSearch.pc = "returned"
     /\ \E answer \in SameCandidates(prevSearch.answer) : QueryResolves(answer)
  \/ QueryRejects
  \/ SearchAgain

-----------------------------------------------------------------------------
(***************************************************************************)
(* ChromaVectorStore.addEmbeddings.  Of the chunks only their number is    *)
(* kept; whether the store accepts an add and whether the embedding        *)
(* service answers is the environment's choice at every await.             *)
(***************************************************************************)
MaxGroups == 2

ChromaBatchSize == 100

\* chunks.length: around every multiple of the batch size
ChunkCounts ==
  {n \in {g * ChromaBatchSize + r : g \in 0..MaxGroups, r \in {-1, 0, 1}} : n >= 0}

\* batchChunks.length for the group that starts at i
GroupSize(n, i) == Min(ChromaBatchSize, n - i)

NoGroup == [rejected |-> FALSE, size |-> 0, retried |-> 0]

NoAdd ==
  [pc |-> "idle", n |-> 0, hasEmbeddings |-> FALSE, i |-> 0, j |-> 0,
   groupsDone |-> 0, last |-> "none", raisedBy |-> "none", lastGroup |-> NoGroup]

AddIdle == addCall = NoAdd

\* line 127-131: with embeddings on the chunks collection.add is awaited
\* next, without them generateEmbeddings is
GroupEntry(call) == IF call.hasEmbeddings THEN "add" ELSE "embed"

\* lines 107, 166-167: the group that starts at call.i is finished
GroupFinished(call, rejected, retried) ==
  LET next == call.i + ChromaBatchSize
      moved == [call EXCEPT
                  !.i = next, !.j = 0,
                  !.groupsDone = call.groupsDone + 1,
                  !.lastGroup = [rejected |-> rejected,
                                 size |-> GroupSize(call.n, call.i),
                                 retried |-> retried]]
  IN IF next < call.n
     THEN [moved EXCEPT !.pc = GroupEntry(call)]
     ELSE [moved EXCEPT !.pc = "done"]

\* a variant of the catch block at lines 162-164 that throws again
OnIndividualErrorRethrow(call) ==
  [call EXCEPT !.pc = "raised", !.raisedBy = "collection.add"]

\* lines 162-164: the failure of an individual add is logged
OnIndividualError(call) == [call EXCEPT !.last = "logged"]

\* lines 148, 165: the next chunk of the group, or the end of the group
AfterIndividual(call) ==
  IF call.pc # "retry" THEN call
  ELSE IF call.j + 1 < GroupSize(call.n, call.i)
       THEN [call EXCEPT !.j = call.j + 1]
       ELSE GroupFinished(call, TRUE, call.j + 1)

\* lines 99-102
AddEmbeddingsStart(n, hasEmbeddings) ==
  /\ addCall.pc = "idle"
  /\ addCall' = IF n = 0
                THEN [NoAdd EXCEPT !.pc = "done"]
                ELSE [NoAdd EXCEPT !.pc = "collection", !.n = n,
                                   !.hasEmbeddings = hasEmbeddings]
  /\ UNCHANGED <<searchCall, prevSearch, notStoreVars>>

\* line 102: getCollection resolves or rejects
GetCollectionSettles(ok) ==
  /\ addCall.pc = "collection"
  /\ addCall' = IF ok
                THEN [addCall EXCEPT !.pc = GroupEntry(addCall)]
                ELSE [addCall EXCEPT !.pc = "raised", !.raisedBy = "getCollection"]
  /\ UNCHANGED <<searchCall, prevSearch, notStoreVars>>

\* line 130: generateEmbeddings resolves or rejects (outside the try block)
GenerateEmbeddingsSettles(ok) ==
  /\ addCall.pc = "embed"
  /\ addCall' = IF ok
                THEN [addCall EXCEPT !.pc = "add"]
                ELSE [addCall EXCEPT !.pc = "raised", !.raisedBy = "generateEmbeddings"]
  /\ UNCHANGED <<searchCall, prevSearch, notStoreVars>>

\* lines 133-148: the add of the group resolves, or it rejects and the
\* individual adds begin
GroupAddSettles(ok) ==
  /\ addCall.pc = "add"
  /\ addCall' = IF ok
                THEN GroupFinished(addCall, FALSE, 0)
                ELSE [addCall EXCEPT !.pc = "retry", !.j = 0]
  /\ UNCHANGED <<searchCall, prevSearch, notStoreVars>>

\* lines 153-165: the add of chunk j of the group resolves or rejects
IndividualAddSettles(ok) ==
  /\ addCall.pc = "retry"
  /\ addCall' = IF ok
                THEN AfterIndividual([addCall EXCEPT !.last = "stored"])
                ELSE AfterIndividual(OnIndividualError(addCall))
  /\ UNCHANGED <<searchCall, prevSearch, notStoreVars>>

AddNext ==
  \/ \E n \in ChunkCounts, hasEmbeddings \in BOOLEAN : AddEmbeddingsStart(n, hasEmbeddings)
  \/ \E ok \in BOOLEAN : GetCollectionSettles(ok)
  \/ \E ok \in BOOLEAN : GenerateEmbeddingsSettles(ok)
  \/ \E ok \in BOOLEAN : GroupAddSettles(ok)
  \/ \E ok \in BOOLEAN : IndividualAddSettles(ok)

StoreIdle == SearchIdle /\ AddIdle

-----------------------------------------------------------------------------
(***************************************************************************)
(* generateEmbeddings of OpenAIEmbeddingService and GeminiEmbeddingService.*)
(* The texts of a call are numbered 1..n; a vector is known by the text it *)
(* was computed from, and NoVector is the empty vector [].                 *)
(***************************************************************************)
MaxBatches == 6

Concurrency == 5
OpenAIBatchSize == 500
GeminiBatchSize == 100

EmbeddingServices == {"openai", "gemini"}

BatchSize(service) == IF service = "openai" THEN OpenAIBatchSize ELSE GeminiBatchSize

Vector(text) == [of |-> text]
NoVector == [of |-> 0]

\* the batches array: how many batches, and the texts of batch b
NumBatches(service, n) == (n + BatchSize(service) - 1) \div BatchSize(service)

BatchTexts(service, n, b) ==
  ((b - 1) * BatchSize(service) + 1)..Min(b * BatchSize(service), n)

\* every batch of the call dispatched at once
WaveBatchesUnlimited(i, numBatches) == (i + 1)..numBatches

\* batches.slice(i, i + concurrency), as 1-based batch numbers
WaveBatches(i, numBatches) == (i + 1)..Min(i + Concurrency, numBatches)

\* the vectors of a batch whose items in `failed` could not be embedded
BatchVectors(service, n, b, failed) ==
  LET first == (b - 1) * BatchSize(service) + 1
      size == Cardinality(BatchTexts(service, n, b))
  IN [k \in 1..size |->
        IF (first + k - 1) \in failed THEN NoVector ELSE Vector(first + k - 1)]

\* the items of batch b that a call may fail to embed
FailureChoices(service, n, b) ==
  LET texts == BatchTexts(service, n, b)
      first == (b - 1) * BatchSize(service) + 1
      last == Min(b * BatchSize(service), n)
  IN {{}, {first}, {last}}

\* batchResults.forEach(results.push(...)): the wave's results in batch order
RECURSIVE WaveResults(_, _, _)
WaveResults(settled, from, to) ==
  IF from > to THEN <<>>
  ELSE settled[from] \o WaveResults(settled, from + 1, to)

\* results.filter(embedding => embedding.length > 0)
ValidResults(results) == SelectSeq(results, LAMBDA v : v # NoVector)

TextCounts(service) ==
  {n \in {0, 1, BatchSize(service), BatchSize(service) + 1,
           Concurrency * BatchSize(service), Concurrency * BatchSize(service) + 1,
           MaxBatches * BatchSize(service)} :
     n <= MaxBatches * BatchSize(service)}

NoBatchCall ==
  [pc |-> "idle", service |-> None, n |-> 0, i |-> 0, inflight |-> {},
   settled |-> <<>>, results |-> <<>>, failures |-> 0, maxInFlight |-> 0]

BatchIdle == batchCall = NoBatchCall

\* the wave that starts at batch index i is dispatched, or the call returns
Dispatch(call, results) ==
  LET numBatches == NumBatches(call.service, call.n)
  IN IF call.i >= numBatches
     THEN [call EXCEPT !.pc = "done",
                       !.inflight = {},
                       !.settled = <<>>,
                       !.results = IF call.service = "gemini"
                                   THEN ValidResults(results) ELSE results]
     ELSE LET wave == WaveBatches(call.i, numBatches)
          IN [call EXCEPT !.pc = "wave",
                          !.inflight = wave,
                          !.settled = <<>>,
                          !.results = results,
                          !.maxInFlight = Max(call.maxInFlight, Cardinality(wave))]

\* generateEmbeddings(texts) is called
GenerateEmbeddingsStart(service, n) ==
  /\ batchCall.pc = "idle"
  /\ batchCall' = Dispatch([NoBatchCall EXCEPT !.service = service, !.n = n], <<>>)
  /\ UNCHANGED notBatchVars

\* the request of batch b resolves; when it is the last of its wave,
\* Promise.all resolves, the wave's results are pushed and the loop goes on
BatchResolves(b, failed) ==
  /\ batchCall.pc = "wave"
  /\ b \in batchCall.inflight
  /\ batchCall.service = "openai" => failed = {}
  /\ LET call == batchCall
         settled == (b :> BatchVectors(call.service, call.n, b, failed)) @@ call.settled
         rest == call.inflight \ {b}
         counted == [call EXCEPT !.failures = @ + Cardinality(failed)]
     IN batchCall' =
          IF rest # {}
          THEN [counted EXCEPT !.inflight = rest, !.settled = settled]
          ELSE LET last == Min(call.i + Concurrency, NumBatches(call.service, call.n))
               IN Dispatch([counted EXCEPT !.i = call.i + Concurrency],
                           call.results \o WaveResults(settled, call.i + 1, last))
  /\ UNCHANGED notBatchVars

\* the request of batch b rejects (OpenAI): Promise.all rejects and the call
\* throws, while the other requests of the wave are still in flight
BatchRejects(b) ==
  /\ batchCall.pc = "wave"
  /\ batchCall.service = "openai"
  /\ b \in batchCall.inflight
  /\ batchCall' = [batchCall EXCEPT !.pc = "thrown",
                                    !.inflight = @ \ {b},
                                    !.settled = <<>>,
                                    !.results = <<>>]
  /\ UNCHANGED notBatchVars

\* a request left in flight by a call that has thrown settles
OrphanSettles(b) ==
  /\ batchCall.pc = "thrown"
  /\ b \in batchCall.inflight
  /\ batchCall' = [batchCall EXCEPT !.inflight = @ \ {b}]
  /\ UNCHANGED notBatchVars

BatchNext ==
  \/ \E service \in EmbeddingServices :
       \E n \in TextCounts(service) : GenerateEmbeddingsStart(service, n)
  \/ /\ batchCall.pc = "wave"
     /\ \E b \in batchCall.inflight :
          \E failed \in FailureChoices(batchCall.service, batchCall.n, b) :
            BatchResolves(b, failed)
  \/ \E b \in batchCall.inflight : BatchRejects(b)
  \/ \E b \in batchCall.inflight : OrphanSettles(b)

-----------------------------------------------------------------------------
(***************************************************************************)
(* ChromaVectorStore.addEmbeddings on one group of chunks without          *)
(* embeddings, with the vectors followed: chunk k has content text k, the  *)
(* embedding service is the Gemini one, which leaves out the vectors of    *)
(* the texts it could not embed.                                           *)
(***************************************************************************)
MaxChunks == 3

NoGroupCall ==
  [pc |-> "idle", n |-> 0, embeddings |-> <<>>, j |-> 0, written |-> {},
   dropped |-> 0, rejected |-> FALSE]

GroupIdle == groupCall = NoGroupCall

\* addEmbeddings(chunks) with one group of n chunks, none with an embedding
GroupStart(n) ==
  /\ groupCall.pc = "idle"
  /\ groupCall' = [NoGroupCall EXCEPT !.pc = "embed", !.n = n]
  /\ UNCHANGED notPairVars

\* line 130: generateEmbeddings(documents) returns the vectors of the texts
\* that could be embedded, in order
GroupEmbeddingsReturn(failed) ==
  /\ groupCall.pc = "embed"
  /\ groupCall' = [groupCall EXCEPT
        !.pc = "add",
        !.embeddings = ValidResults(BatchVectors("gemini", groupCall.n, 1, failed)),
        !.dropped = Cardinality(failed)]
  /\ UNCHANGED notPairVars

\* collection.add({ids, embeddings, ...}) writes id k with embeddings[k]
GroupWrites(call) == {[id |-> k, embedding |-> call.embeddings[k]] : k \in 1..call.n}

\* lines 133-148: the add of the group resolves, or it rejects (as it does
\* when there are fewer embeddings than ids) and the individual adds begin
GroupAdd(ok) ==
  /\ groupCall.pc = "add"
  /\ ok => Len(groupCall.embeddings) = groupCall.n
  /\ groupCall' = IF ok
                  THEN [groupCall EXCEPT !.pc = "done", !.written = GroupWrites(groupCall)]
                  ELSE [groupCall EXCEPT !.pc = "retry", !.j = 0, !.rejected = TRUE]
  /\ UNCHANGED notPairVars

\* line 154: embeddings[j] || await generateEmbedding(chunk.content), for the
\* chunk at index j = k - 1
IndividualEmbedding(call, k) ==
  IF k <= Len(call.embeddings)
  THEN [known |-> TRUE, embedding |-> call.embeddings[k]]
  ELSE [known |-> FALSE, embedding |-> Vector(k)]

\* lines 148-165: one turn of the loop over the chunks of the group:
\* generateEmbedding (when it is called) and collection.add resolve or reject
GroupIndividualAdd(embedOk, addOk) ==
  /\ groupCall.pc = "retry"
  /\ LET k == groupCall.j + 1
         chosen == IndividualEmbedding(groupCall, k)
         stored == (chosen.known \/ embedOk) /\ addOk
         after == IF stored
                  THEN [groupCall EXCEPT
                          !.written = @ \cup {[id |-> k, embedding |-> chosen.embedding]}]
                  ELSE groupCall
     IN /\ chosen.known => embedOk
        /\ groupCall' = IF k < groupCall.n
                        THEN [after EXCEPT !.j = k]
                        ELSE [after EXCEPT !.j = k, !.pc = "done"]
  /\ UNCHANGED notPairVars

GroupNext ==
  \/ \E n \in 1..MaxChunks : GroupStart(n)
  \/ /\ groupCall.pc = "embed"
     /\ \E failed \in SUBSET (1..groupCall.n) : GroupEmbeddingsReturn(failed)
  \/ \E ok \in BOOLEAN : GroupAdd(ok)
  \/ \E embedOk \in BOOLEAN, addOk \in BOOLEAN : GroupIndividualAdd(embedOk, addOk)

-----------------------------------------------------------------------------
(***************************************************************************)
(* DocumentIndexer.indexIncrementalChanges.  The collection is the set of  *)
(* the stored chunks; each is known by its id, and carries the file it     *)
(* came from and the run that stored it.                                   *)
(***************************************************************************)
MaxIndexRuns == 3
MaxFileChunks == 2

Files == {"a.md", "b.md"}

NoIndexer ==
  [store |-> {}, uuids |-> 0, runs |-> 0, indexed |-> [f \in Files |-> 0]]

IndexIdle == indexer = NoIndexer

\* createChunks: chunk k of the file gets id uuidv4()
FileChunks(file, count, uuids, run) ==
  {[id |-> UuidV4(uuids + k + 1), file |-> file, chunkIndex |-> k, run |-> run] :
     k \in 0..(count - 1)}

\* line 94: chunks.map(chunk => `${filePath}:${chunk.chunkIndex}`)
ExistingChunkIds(file, count) ==
  {file \o ":" \o ToString(k) : k \in 0..(count - 1)}

\* collection.delete({ids})
DeleteEmbeddings(store, ids) == {c \in store : c.id \notin ids}

\* lines 90-103: one turn of the loop for a changed file that now has
\* `count` chunks; deleteEmbeddings and addEmbeddings resolve or reject
IndexIncrementalChange(file, count, deleteOk, addOk) ==
  /\ indexer.runs < MaxIndexRuns
  /\ ~deleteOk => ~addOk
  /\ LET run == indexer.runs + 1
         fresh == FileChunks(file, count, indexer.uuids, run)
         deleted == IF deleteOk
                    THEN DeleteEmbeddings(indexer.store, ExistingChunkIds(file, count))
                    ELSE indexer.store
     IN indexer' = [store |-> IF addOk THEN deleted \cup fresh ELSE deleted,
                    uuids |-> indexer.uuids + count,
                    runs |-> run,
                    indexed |-> IF addOk THEN [indexer.indexed EXCEPT ![file] = run]
                                ELSE indexer.indexed]
  /\ UNCHANGED notIndexVars

IndexNext ==
  \E file \in Files, count \in 1..MaxFileChunks, deleteOk \in BOOLEAN, addOk \in BOOLEAN :
    IndexIncrementalChange(file, count, deleteOk, addOk)

-----------------------------------------------------------------------------
(***************************************************************************)
(* The frontend chat store: sendMessage as ChatInput.handleSubmit calls    *)
(* it, and clearChat.                                                      *)
(***************************************************************************)
MaxSends == 3

Queries == {"q1", "q2"}
ApiOutcomes == {"success", "failure", "throws"}

SearchErrorJa == "Moushiwake gozaimasen. Kensaku-chuu ni eraa ga hassei shimashita."

NoChat ==
  [messages |-> <<>>, currentConversationId |-> None, isLoading |-> FALSE,
   pc |-> "idle", query |-> "", base |-> 0, sends |-> 0, outcome |-> None]

ChatIdle == chat = NoChat

\* handleSubmit passes its guard and sendMessage runs up to its await
HandleSubmit(query) ==
  /\ chat.pc # "awaiting"
  /\ ~chat.isLoading
  /\ chat.sends < MaxSends
  /\ chat' = [chat EXCEPT
        !.messages = Append(@, [role |-> "user", content |-> query]),
        !.isLoading = TRUE,
        !.pc = "awaiting",
        !.query = query,
        !.base = Len(chat.messages),
        !.sends = @ + 1,
        !.outcome = None]
  /\ UNCHANGED notChatVars

\* api.search settles and sendMessage returns
ApiSettles(outcome) ==
  /\ chat.pc = "awaiting"
  /\ chat' =
       CASE outcome = "success" ->
              [chat EXCEPT
                 !.messages = Append(@, [role |-> "assistant", content |-> "a1"]),
                 !.currentConversationId = "c1",
                 !.isLoading = FALSE,
                 !.pc = "returned",
                 !.outcome = outcome]
         [] outcome = "failure" ->
              [chat EXCEPT !.pc = "returned", !.outcome = outcome]
         [] OTHER ->
              [chat EXCEPT
                 !.messages = Append(@, [role |-> "assistant", content |-> SearchErrorJa]),
                 !.isLoading = FALSE,
                 !.pc = "returned",
                 !.outcome = outcome]
  /\ UNCHANGED notChatVars

\* clearChat, while no call is awaiting
ClearChat ==
  /\ chat.pc = "returned"
  /\ chat' = [chat EXCEPT
        !.messages = <<>>,
        !.currentConversationId = None,
        !.isLoading = FALSE,
        !.pc = "idle",
        !.query = "",
        !.base = 0,
        !.outcome = None]
  /\ UNCHANGED notChatVars

ChatNext ==
  \/ \E query \in Queries : HandleSubmit(query)
  \/ \E outcome \in ApiOutcomes : ApiSettles(outcome)
  \/ ClearChat

LaterIdle == BatchIdle /\ GroupIdle /\ IndexIdle /\ ChatIdle

-----------------------------------------------------------------------------
InitChunk == ChunkInit /\ MetaIdle /\ ProvIdle /\ QueryInit /\ StoreIdle /\ CallerIdle /\ LaterIdle
SpecChunk == InitChunk /\ [][ChunkNext]_vars
InitChunkCall == ChunkIdle /\ MetaIdle /\ ProvIdle /\ QueryInit /\ StoreIdle /\ CallerIdle /\ LaterIdle
\* createChunks is synchronous: once called it runs on to its return.  The
\* fairness of the loop is weak fairness of CreateChunksIter written out, with
\* the guard of the action for its enabledness.
SpecChunkCall ==
  /\ InitChunkCall
  /\ [][ChunkCallNext]_vars
  /\ WF_vars(CreateChunksEntry)
  /\ ([]<>(~IterEnabled) \/ []<><<CreateChunksIter>>_vars)

InitMeta == MetaInit /\ ChunkIdle /\ ProvIdle /\ QueryInit /\ StoreIdle /\ CallerIdle /\ LaterIdle
SpecMeta == InitMeta /\ [][MetaNext]_vars

InitProvider == ProvInit /\ ChunkIdle /\ MetaIdle /\ QueryInit /\ StoreIdle /\ CallerIdle /\ LaterIdle
SpecProvider == InitProvider /\ [][ProvNext]_vars

SpecCreate == InitProvider /\ [][CreateNext]_vars

InitQuery == QueryInit /\ ChunkIdle /\ MetaIdle /\ ProvIdle /\ StoreIdle /\ CallerIdle /\ LaterIdle
SpecQuery == InitQuery /\ [][QueryNext]_vars

InitStore == StoreIdle /\ ChunkIdle /\ MetaIdle /\ ProvIdle /\ QueryInit /\ CallerIdle /\ LaterIdle
SpecSearch == InitStore /\ [][SearchNext]_vars
SpecSearchRepeat == InitStore /\ [][SearchRepeatNext]_vars
SpecAdd == InitStore /\ [][AddNext]_vars

InitTimer == TimerInit /\ ChunkIdle /\ MetaIdle /\ QueryInit /\ StoreIdle /\ CallerIdle /\ LaterIdle
SpecTimer == InitTimer /\ [][TimerNext]_vars

InitIdle ==
  /\ LaterIdle /\ ChunkIdle /\ MetaIdle /\ ProvIdle /\ QueryInit /\ StoreIdle
  /\ CallerIdle
SpecBatch == InitIdle /\ [][BatchNext]_vars
SpecGroup == InitIdle /\ [][GroupNext]_vars
SpecIndex == InitIdle /\ [][IndexNext]_vars
SpecChat == InitIdle /\ [][ChatNext]_vars

SpecHealth == InitProvider /\ [][HealthNext]_vars

InitLedger == LedgerInit /\ ChunkIdle /\ MetaIdle /\ QueryInit /\ StoreIdle /\ LaterIdle
SpecLedger == InitLedger /\ [][LedgerNext]_vars

-----------------------------------------------------------------------------
(***************************************************************************)
(* Claims about createChunks (SpecChunk)                                   *)
(***************************************************************************)
ChunksDone == cpc = "done"

\* C7: chunk coverage.  For every text and every targetSize >= 1 and
\* overlap >= 0, the returned chunks in chunkIndex order cover the text: the
\* first chunk starts at offset 0, each later chunk starts at or before the
\* end of the chunk before it, and the last chunk ends at the length of the
\* text.  (A text with nothing but whitespace has nothing to cover.)
C7_ChunkCoverage ==
  (ChunksDone /\ chunkSize >= 1 /\ Trim(content) # <<>>) =>
    /\ chunks # <<>>
    /\ chunks[1].startPosition = 0
    /\ \A i \in 2..Len(chunks) : chunks[i].startPosition <= chunks[i - 1].endPosition
    /\ chunks[Len(chunks)].endPosition = Len(content)

\* C8: createChunks returns no chunk for a zero-length or whitespace-only
\* text; every returned chunk has non-empty trimmed content and
\* endPosition > startPosition.
C8_NoEmptyChunk ==
  ChunksDone =>
    /\ Trim(content) = <<>> => chunks = <<>>
    /\ \A i \in 1..Len(chunks) :
         /\ Trim(chunks[i].content) # <<>>
         /\ chunks[i].endPosition > chunks[i].startPosition

\* C9: single-chunk invariant.  For a text no longer than targetSize exactly
\* one chunk is returned, with chunkIndex 0, startPosition 0, endPosition the
\* length of the text and the trimmed text as content; for a longer text the
\* chunks carry the chunkIndex values 0, 1, 2, ... in emission order.
C9_SingleChunkAndIndices ==
  ChunksDone =>
    /\ Len(content) <= chunkSize =>
         /\ Len(chunks) = 1
         /\ chunks[1].chunkIndex = 0
         /\ chunks[1].startPosition = 0
         /\ chunks[1].endPosition = Len(content)
         /\ chunks[1].content = Trim(content)
    /\ Len(content) > chunkSize =>
         \A i \in 1..Len(chunks) : chunks[i].chunkIndex = i - 1

\* C9 witness: a text longer than targetSize returned as at least two chunks,
\* the second starting more than one character after the first
C9_Witness ==
  /\ ChunksDone
  /\ Len(content) > chunkSize
  /\ Len(chunks) >= 2
  /\ chunks[2].startPosition > chunks[1].startPosition + 1

-----------------------------------------------------------------------------
(***************************************************************************)
(* Claims about extractLawNumber (SpecMeta)                                *)
(***************************************************************************)
\* the file name starts with 3 digits, 2 upper-case letters and 10 digits
\* followed by "_"
HasFullLawCode(s) ==
  /\ DigitRun(s, 1) >= 3
  /\ UpperRun(s, 4) = 2
  /\ DigitRun(s, 6) = 10
  /\ Len(s) >= 16
  /\ s[16] = "_"

\* C10: for a file name that starts with 3 digits, 2 upper-case letters and
\* 10 digits followed by "_", the extracted lawNumber is the complete
\* 15-character code.
C10_WholeLawCode ==
  (mpc = "done" /\ HasFullLawCode(fileName)) => lawNumber = SubSeq(fileName, 1, 15)

\* the end of the field of the file name that starts at index i: fields are
\* separated by "_"
RECURSIVE FieldEnd(_, _)
FieldEnd(s, i) == IF i > Len(s) \/ s[i] = "_" THEN i - 1 ELSE FieldEnd(s, i + 1)

FieldStarts(s) == {i \in 1..Len(s) : i = 1 \/ s[i - 1] = "_"}

\* the field that starts at i is a valid YYYYMMDD date
IsDateField(s, i) ==
  /\ FieldEnd(s, i) = i + 7
  /\ \A j \in i..(i + 7) : IsDigit(s[j])
  /\ LET year == ParseInt(SubSeq(s, i, i + 3))
         month == ParseInt(SubSeq(s, i + 4, i + 5))
         day == ParseInt(SubSeq(s, i + 6, i + 7))
     IN /\ year > MinYear
        /\ month \in 1..12
        /\ day \in 1..DaysInMonth(year, month)

DateFields(s) == {i \in FieldStarts(s) : IsDateField(s, i)}

DateOfField(s, i) ==
  [year |-> ParseInt(SubSeq(s, i, i + 3)),
   month |-> ParseInt(SubSeq(s, i + 4, i + 5)),
   day |-> ParseInt(SubSeq(s, i + 6, i + 7))]

\* C11: date extraction returns the date encoded in the file name's YYYYMMDD
\* field whenever the file name contains a valid one, independently of the
\* other digit runs of the name: for
\* "321AC0000000001_19470503_000000000000000" the date is 1947-05-03.
C11_DateFromField ==
  (dpc = "done" /\ DateFields(fileName) # {}) =>
    \E i \in DateFields(fileName) : date = DateOfField(fileName, i)

-----------------------------------------------------------------------------
(***************************************************************************)
(* Claims about provider selection (SpecCreate)                            *)
(***************************************************************************)
\* the order the claim names: primary, fallback[0], fallback[1], ...
ClaimedOrder == <<config.primary>> \o config.fallback

AttemptFailed(call, i) ==
  /\ ~call.attempts[i].passed
  /\ call.attempts[i].probed = CanCreate(config, call.kind, ClaimedOrder[i])

-----------------------------------------------------------------------------
(***************************************************************************)
(* Claims about calls through a wrapped service (SpecProvider)             *)
(***************************************************************************)
ConfiguredChain == {ClaimedOrder[i] : i \in 1..Len(ClaimedOrder)}

\* C2: when a live invocation (generateEmbedding, generateEmbeddings or
\* generateResponse) fails at the underlying provider, the failure is
\* recovered by advancing to the next fallback provider; an error reaches the
\* caller only if every provider of the configured chain has failed.
C2_LiveFailover ==
  lastInvoke.outcome = "ProviderError" => lastInvoke.tried = ConfiguredChain

\* C3: once a health check has marked a provider unhealthy while another
\* configured provider is healthy, a subsequent embedding or generation call
\* is routed to a healthy provider, also when it is made through a service
\* object created before the provider became unhealthy.
C3_RoutedToHealthy ==
  ( /\ lastInvoke.provider # None
    /\ lastInvoke.unhealthyAtCall \cap ConfiguredChain # {}
    /\ lastInvoke.healthyAtCall \cap ConfiguredChain # {} )
  => lastInvoke.provider \in lastInvoke.healthyAtCall

-----------------------------------------------------------------------------
(***************************************************************************)
(* Claims about processQuery (SpecQuery)                                   *)
(***************************************************************************)
ReturnedCalls == {c \in 1..MaxQueryCalls : qcalls[c].pc = "returned"}

\* the ids uuidv4() has generated so far
Generated == {UuidV4(n) : n \in 1..uuidCount}

\* the request names a conversation: conversationId is present and is not
\* the empty string (an empty string names no conversation)
SuppliesId(request) == Has(request, "conversationId") /\ request.conversationId # ""

\* C4: processQuery never raises to its caller: when retrieval, answer
\* generation or related-question generation fails, the call returns a
\* response with a non-empty apology (English when language is 'en',
\* Japanese otherwise), empty sources, empty relatedQuestions and a
\* conversationId equal to the supplied id or, when none was supplied, an id
\* generated for this call alone.
C4_ApologyOnFailure ==
  \A c \in 1..MaxQueryCalls :
    LET call == qcalls[c] IN
    /\ call.pc \in {"free", "search", "respond", "related", "returned"}
    /\ call.failed =>
         /\ call.pc = "returned"
         /\ call.response.answer # ""
         /\ call.response.answer =
              ( IF Has(call.request, "language") /\ call.request.language = "en"
                THEN ApologyEn ELSE ApologyJa )
         /\ call.response.sources = <<>>
         /\ call.response.relatedQuestions = <<>>
         /\ IF SuppliesId(call.request)
            THEN call.response.conversationId = call.request.conversationId
            ELSE /\ call.response.conversationId \in Generated
                 /\ \A d \in ReturnedCalls \ {c} :
                      qcalls[d].response.conversationId # call.response.conversationId

\* C4 witness: one call made in English with an id and one made without a
\* language and without an id have both failed and returned
C4_Witness ==
  \E c, d \in ReturnedCalls :
    /\ qcalls[c].failed /\ qcalls[d].failed
    /\ Has(qcalls[c].request, "language") /\ qcalls[c].request.language = "en"
    /\ SuppliesId(qcalls[c].request)
    /\ ~Has(qcalls[d].request, "language")
    /\ ~SuppliesId(qcalls[d].request)

IsPrefix(p, q) == Len(p) <= Len(q) /\ SubSeq(q, 1, Len(p)) = p

MessagesOf(convs, id) == IF id \in DOMAIN convs THEN convs[id].messages ELSE <<>>

\* the call c returns in this step
Returns(c) == qcalls[c].pc # "returned" /\ qcalls'[c].pc = "returned"

\* C5: a processQuery call changes the stored conversation in exactly one of
\* two ways: a call that returns a generated answer has appended exactly two
\* messages, the user message followed by the assistant message carrying the
\* citations, at its return; a call that returns the apology has appended no
\* message.  No other step changes a message list, messages already stored
\* are never removed, reordered or replaced, and an existing conversation is
\* never re-created.
C5_ConversationFrame ==
  [][ /\ \A id \in DOMAIN conversations :
           /\ id \in DOMAIN conversations'
           /\ IsPrefix(conversations[id].messages, conversations'[id].messages)
           /\ created'[id] = created[id]
      /\ \A id \in DOMAIN conversations' \ DOMAIN conversations :
           conversations'[id].messages = <<>> /\ created'[id] = 1
      /\ \A c \in 1..MaxQueryCalls :
           Returns(c) =>
             LET response == qcalls'[c].response
                 id == response.conversationId
                 before == MessagesOf(conversations, id)
                 after == MessagesOf(conversations', id)
             IN /\ id \in DOMAIN conversations
                /\ IF qcalls'[c].failed
                   THEN after = before
                   ELSE after = before \o
                          << [role |-> "user", content |-> qcalls[c].request.query],
                             [role |-> "assistant", content |-> response.answer,
                              sources |-> response.sources] >>
                /\ \A other \in DOMAIN conversations \ {id} :
                     conversations'[other] = conversations[other]
      /\ (\A c \in 1..MaxQueryCalls : ~Returns(c)) =>
           \A id \in DOMAIN conversations : conversations'[id] = conversations[id]
    ]_vars

\* C5 witness: two calls on the conversation "c1" have returned, one with a
\* generated answer and one with the apology; the conversation was created
\* once and holds the two messages of the answered call
C5_Witness ==
  \E c, d \in ReturnedCalls :
    /\ ~qcalls[c].failed /\ qcalls[d].failed
    /\ qcalls[c].response.conversationId = "c1"
    /\ qcalls[d].response.conversationId = "c1"
    /\ created["c1"] = 1
    /\ Len(conversations["c1"].messages) = 2
    /\ conversations["c1"].messages[1].role = "user"
    /\ conversations["c1"].messages[2].role = "assistant"
    /\ conversations["c1"].messages[2].sources = qcalls[c].response.sources

\* the request carries its filters in the documented form { category, era }
HasDocumentedFilters(request) ==
  /\ Has(request, "filters")
  /\ Has(request.filters, "category")
  /\ Has(request.filters, "era")

ChunkOf(chunkId) == CHOOSE d \in Corpus : d.id = chunkId

\* C6: processQuery applies the caller's metadata filters to retrieval: when
\* the request carries filters in the documented form
\* {"filters": {"category": c, "era": e}}, the vector search is executed with
\* category = c and era = e, so that no returned source has a different
\* category or era.
C6_FiltersApplied ==
  \A c \in 1..MaxQueryCalls :
    LET call == qcalls[c] IN
    (call.pc # "free" /\ HasDocumentedFilters(call.request)) =>
      /\ call.pc \in {"respond", "related"} =>
           LET where == WhereClause(call.searchOptions)
           IN /\ Has(where, "category") /\ where.category = call.request.filters.category
              /\ Has(where, "era") /\ where.era = call.request.filters.era
      /\ (call.pc = "returned" /\ ~call.failed) =>
           \A i \in 1..Len(call.response.sources) :
             LET d == ChunkOf(call.response.sources[i].chunkId)
             IN /\ d.category = call.request.filters.category
                /\ d.era = call.request.filters.era

-----------------------------------------------------------------------------
(***************************************************************************)
(* Claims about searchByEmbedding (SpecSearch, SpecSearchRepeat)           *)
(***************************************************************************)
Scores(result) == {result[k].score : k \in 1..Len(result)}

\* C12: monotonic ranking: for every answer of the backing store and every
\* options value the list searchByEmbedding returns has non-increasing
\* scores by position, holds no result whose score (1 - distance) is below
\* the caller's threshold, and holds at most limit results; it holds
\* exactly the candidates of the answer that reach the threshold.
C12_MonotonicRanking ==
  searchCall.pc = "returned" =>
    LET result == searchCall.result
        answer == searchCall.answer
        threshold == ThresholdOf(searchCall.options)
    IN /\ \A k \in 1..(Len(result) - 1) : result[k].score >= result[k + 1].score
       /\ \A k \in 1..Len(result) : result[k].score >= threshold
       /\ Len(result) <= LimitOf(searchCall.options)
       /\ {[id |-> result[k].chunk.id, score |-> result[k].score] : k \in 1..Len(result)}
            = {[id |-> answer[k].id, score |-> 100 - answer[k].distance] :
                 k \in {x \in 1..Len(answer) : 100 - answer[x].distance >= threshold}}

\* C12 witness: the store listed a farther candidate before a nearer one and
\* a candidate below the threshold; the call returned the two others, the
\* nearer first
C12_Witness ==
  /\ searchCall.pc = "returned"
  /\ Len(searchCall.answer) = 3
  /\ Len(searchCall.result) = 2
  /\ searchCall.answer[1].distance > searchCall.answer[2].distance
  /\ searchCall.result[1].chunk.id = searchCall.answer[2].id
  /\ searchCall.result[1].score > searchCall.result[2].score

\* C13: results of equal score are ordered by a deterministic tie-break on
\* the results themselves: two calls for which the backing store returns the
\* same candidates with the same distances, listed in a different order,
\* return their results in the same order.
C13_DeterministicTieBreak ==
  ( /\ prevSearch.pc = "returned"
    /\ searchCall.pc = "returned"
    /\ searchCall.options = prevSearch.options
    /\ searchCall.answer \in SameCandidates(prevSearch.answer) )
  => searchCall.result = prevSearch.result

\* C14: every SearchResult returned has a score in the closed range [0,1],
\* for every distance d >= 0 of the backing store and every threshold of the
\* caller, a negative threshold and the default 0.0 included.
C14_ScoreInUnitRange ==
  searchCall.pc = "returned" => \A x \in Scores(searchCall.result) : x >= 0 /\ x <= 100

-----------------------------------------------------------------------------
(***************************************************************************)
(* Claims about addEmbeddings (SpecAdd)                                    *)
(***************************************************************************)
GroupsOf(n) == (n + ChromaBatchSize - 1) \div ChromaBatchSize

\* C15: addEmbeddings splits its input into groups of 100 chunks; when the
\* backing store rejects the add of a group, every chunk of that group is
\* retried individually, an individual failure is logged and not thrown, the
\* remaining groups are still processed, and the call completes without
\* raising: it raises only when getCollection or the embedding service
\* rejects.
C15_GroupRetry ==
  LET call == addCall IN
  /\ call.pc \in {"embed", "add", "retry"} =>
       /\ call.i = call.groupsDone * ChromaBatchSize
       /\ call.i < call.n
  /\ call.pc = "retry" =>
       /\ call.j < GroupSize(call.n, call.i)
       /\ call.j > 0 => call.last \in {"stored", "logged"}
  /\ call.lastGroup.size \in 0..ChromaBatchSize
  /\ call.groupsDone > 0 =>
       call.lastGroup.size = GroupSize(call.n, (call.groupsDone - 1) * ChromaBatchSize)
  /\ call.lastGroup.rejected => call.lastGroup.retried = call.lastGroup.size
  /\ call.pc = "done" => call.groupsDone = GroupsOf(call.n)
  /\ call.pc = "raised" => call.raisedBy \in {"getCollection", "generateEmbeddings"}

\* C15 witness: 200 chunks; the add of the second group was rejected, its 100
\* chunks were added one by one, the last of them failed and was logged, and
\* the call completed
C15_Witness ==
  /\ addCall.pc = "done"
  /\ addCall.n = 2 * ChromaBatchSize
  /\ addCall.groupsDone = 2
  /\ addCall.lastGroup = [rejected |-> TRUE, size |-> ChromaBatchSize,
                           retried |-> ChromaBatchSize]
  /\ addCall.last = "logged"

-----------------------------------------------------------------------------
(***************************************************************************)
(* Health figures and the cost ledger.                                     *)
(***************************************************************************)
HealthWindow == 100

\* the most recent HealthWindow observations of a provider
RecentObservations(p) ==
  LET obs == observations[p]
  IN IF Len(obs) > HealthWindow
     THEN SubSeq(obs, Len(obs) - HealthWindow + 1, Len(obs))
     ELSE obs

FailuresIn(obs) == Cardinality({k \in 1..Len(obs) : ~obs[k]})

\* C16: after any sequence of health observations of a provider its errorRate
\* is the percentage of failed observations among the most recent 100 of them
\* (among all of them when there are fewer), and lies between 0 and 100; so it
\* falls again when failures are followed by successful observations
C16_ErrorRateWindow ==
  \A p \in ChainProviders :
    observations[p] # <<>> =>
      LET recent == RecentObservations(p)
      IN /\ healthStatus[p].errorRate \in 0..100
         /\ healthStatus[p].errorRate * Len(recent) = 100 * FailuresIn(recent)

\* the methods whose wrapper is written to track the cost of a successful call
TrackedOperations == {"generateEmbedding", "generateEmbeddings", "generateResponse"}

\* the record of the k-th call of the workload
CallRecord(k) ==
  LET operation == OperationKind(workload.op)
      outputTokens == IF operation = "embedding" THEN 0 ELSE workload.outputTokens
  IN [provider |-> workload.provider,
      operation |-> operation,
      inputTokens |-> k,
      outputTokens |-> outputTokens,
      cost |-> Cost(workload.provider, operation, k, outputTokens)]

\* the sum of the individually computed costs of calls lo..hi
RECURSIVE CallCosts(_, _)
CallCosts(lo, hi) ==
  IF lo > hi THEN 0
  ELSE IF lo = hi THEN CallRecord(lo).cost
  ELSE LET mid == (lo + hi) \div 2
       IN CallCosts(lo, mid) + CallCosts(mid + 1, hi)

RECURSIVE SumValues(_)
SumValues(f) ==
  IF DOMAIN f = {} THEN 0
  ELSE LET p == CHOOSE q \in DOMAIN f : TRUE
       IN f[p] + SumValues([q \in DOMAIN f \ {p} |-> f[q]])

\* C17: after any number N of successful calls of generateEmbedding,
\* generateEmbeddings or generateResponse through a wrapped service, N above
\* 1000 included, getCostSummary().total is the sum of the N calls' costs and
\* the values of byProvider sum to that total
C17_CostAdditivity ==
  workload.op \in TrackedOperations =>
    LET summary == GetCostSummary(costTracking)
    IN /\ summary.total = CallCosts(1, invocations)
       /\ SumValues(summary.byProvider) = summary.total

\* C18: the ledger never holds more than 1000 records; after n tracked calls
\* it holds exactly the most recent min(n, 1000) records, in the order they
\* were appended and as they were appended
C18_LedgerBounded ==
  workload.op \in TrackedOperations =>
    LET kept == Len(costTracking)
    IN /\ kept <= LedgerCap
       /\ kept = Min(invocations, LedgerCap)
       /\ \A i \in 1..kept : costTracking[i] = CallRecord(invocations - kept + i)

\* C18 witness: two calls beyond the capacity were tracked; the ledger is
\* full, starts at the third call and ends at the last one
C18_Witness ==
  /\ workload.op \in TrackedOperations
  /\ invocations = LedgerCap + 2
  /\ Len(costTracking) = LedgerCap
  /\ costTracking[1].inputTokens = 3
  /\ costTracking[LedgerCap].inputTokens = LedgerCap + 2

\* C19: every call of generateEmbedding, generateEmbeddings, generateResponse
\* and generateRelatedQuestions that reaches the provider appends exactly one
\* cost record, tagged with that provider and the operation kind
C19_EveryCallTracked ==
  invocations >= 1 =>
    /\ Len(costTracking) = Min(invocations, LedgerCap)
    /\ costTracking # <<>>
    /\ LET last == costTracking[Len(costTracking)]
       IN /\ last.provider = workload.provider
          /\ last.operation = OperationKind(workload.op)
          /\ last.inputTokens = invocations

\* C20: a primary provider without its credentials or configuration block is
\* a fatal configuration error raised when the factory is constructed: no
\* fallback provider is constructed or probed for it and no service is
\* returned
C20_FatalPrimaryConfig ==
  config.primary \notin config.configured =>
    \A c \in 1..MaxCreates :
      /\ creates[c].state # "returned"
      /\ \A i \in 1..Len(creates[c].attempts) :
           creates[c].attempts[i].provider = config.primary

-----------------------------------------------------------------------------
(***************************************************************************)
(* The health-check timer.                                                 *)
(***************************************************************************)
RoundsStarted == {r \in DOMAIN rounds : rounds[r].state # "free"}

\* C21: with healthCheckInterval 0 the health-check task is never scheduled;
\* after dispose() no further round is started and no timer remains
\* registered; a second dispose() changes nothing
C21_TimerLifecycle ==
  /\ [](config.healthCheckInterval = 0 => timer = "none" /\ RoundsStarted = {})
  /\ [][ /\ timer # "active" => timer' = timer
         /\ timer # "active" => RoundsStarted' = RoundsStarted ]_vars

\* C21 witness: a round ran to its end, then dispose() cleared the timer
\* while a second round could still have been started
C21_Witness ==
  /\ timer = "cleared"
  /\ rounds[1].state = "done"
  /\ rounds[2].state = "free"

RoundsInProgress == {r \in DOMAIN rounds : rounds[r].state \in {"embedding", "llm"}}

\* C29: at most one round of performHealthChecks is in progress at any time,
\* also when a round outlasts healthCheckInterval, and no round writes the
\* health status after dispose()
C29_OneRoundAtATime ==
  /\ [](Cardinality(RoundsInProgress) <= 1)
  /\ [][timer = "cleared" => healthStatus' = healthStatus]_vars

-----------------------------------------------------------------------------
(***************************************************************************)
(* The window loop of createChunks.                                        *)
(***************************************************************************)
MultiChunkPath == cpc \in {"loop", "done"} /\ Len(content) > chunkSize

\* C22: createChunks terminates for every text, every targetSize >= 0 and
\* every overlap >= 0, overlap >= targetSize included: every iteration of
\* the window loop starts at an offset strictly greater than the one before
C22_Termination ==
  /\ (cpc = "start") ~> (cpc = "done")
  /\ [][cpc = "loop" => startPos' > startPos]_vars

\* C22 witness: overlap >= targetSize, and the loop went round at least
\* three times before it ended
C22_Witness ==
  /\ cpc = "done"
  /\ chunkSize >= 1
  /\ overlap >= chunkSize
  /\ Len(chunks) >= 3

\* C23: in the multi-chunk path the cut never lies beyond the window's raw
\* end: every emitted chunk has
\* startPosition < endPosition <= startPosition + targetSize
C23_CutWithinWindow ==
  (MultiChunkPath /\ chunkSize >= 1) =>
    \A i \in 1..Len(chunks) :
      /\ chunks[i].startPosition < chunks[i].endPosition
      /\ chunks[i].endPosition <= chunks[i].startPosition + chunkSize

\* C26: in the multi-chunk path no chunk is emitted after a chunk whose
\* endPosition is the length of the text, so endPosition strictly increases
\* and no chunk's range lies within the range of the chunk before it
C26_NoChunkAfterEnd ==
  (MultiChunkPath /\ chunkSize >= 1) =>
    \A i \in 2..Len(chunks) :
      /\ chunks[i - 1].endPosition # Len(content)
      /\ chunks[i].endPosition > chunks[i - 1].endPosition
      /\ ~(/\ chunks[i - 1].startPosition <= chunks[i].startPosition
           /\ chunks[i].endPosition <= chunks[i - 1].endPosition)

-----------------------------------------------------------------------------
(***************************************************************************)
(* Batch embedding generation.                                             *)
(***************************************************************************)
\* C24: generateEmbeddings groups the texts into batches of fixed size and
\* never has more than 5 batches in flight; when every batch succeeds the
\* result has one vector per text and result i is the embedding of text i
C24_BoundedOrderedBatches ==
  /\ Cardinality(batchCall.inflight) <= Concurrency
  /\ batchCall.maxInFlight <= Concurrency
  /\ \A b \in batchCall.inflight :
       Cardinality(BatchTexts(batchCall.service, batchCall.n, b))
         \in 1..BatchSize(batchCall.service)
  /\ (batchCall.pc = "done" /\ batchCall.failures = 0) =>
       /\ Len(batchCall.results) = batchCall.n
       /\ \A t \in 1..batchCall.n : batchCall.results[t] = Vector(t)

\* C24 witness: a call with more batches than the limit returned after two
\* waves, the first of them with five batches in flight
C24_Witness ==
  /\ batchCall.pc = "done"
  /\ batchCall.failures = 0
  /\ NumBatches(batchCall.service, batchCall.n) > Concurrency
  /\ batchCall.maxInFlight = Concurrency
  /\ Len(batchCall.results) = batchCall.n

\* C25: every chunk written to the collection by addEmbeddings was written
\* with the embedding computed from its own content, also when
\* generateEmbeddings returned fewer vectors than texts and the store fell
\* back to adding the chunks one by one
C25_OwnEmbedding ==
  \A w \in groupCall.written : w.embedding = Vector(w.id)

-----------------------------------------------------------------------------
(***************************************************************************)
(* Incremental indexing.                                                   *)
(***************************************************************************)
\* C27: after indexIncrementalChanges has processed a changed file the store
\* holds no chunk from an earlier indexing of that file, so indexing an
\* unchanged file again leaves the number of stored embeddings unchanged
C27_NoStaleChunks ==
  \A c \in indexer.store :
    indexer.indexed[c.file] > 0 => c.run = indexer.indexed[c.file]

-----------------------------------------------------------------------------
(***************************************************************************)
(* Concurrent processQuery calls on one conversation.                      *)
(***************************************************************************)
RoleAt(i) == IF i % 2 = 1 THEN "user" ELSE "assistant"

\* C28: under every interleaving of concurrent processQuery calls on one
\* conversation the two messages of a call are stored next to each other:
\* the roles alternate user, assistant, user, assistant, ... and the number
\* of messages is even
C28_MessagesAlternate ==
  \A id \in DOMAIN conversations :
    LET messages == conversations[id].messages
    IN /\ Len(messages) % 2 = 0
       /\ \A i \in 1..Len(messages) : messages[i].role = RoleAt(i)

\* C28 witness: the second call on "c1" began after the first, was answered
\* and stored its two messages while the first call is still awaiting
C28_Witness ==
  /\ qcalls[1].pc \in {"search", "respond", "related"}
  /\ qcalls[1].actualConversationId = "c1"
  /\ qcalls[2].pc = "returned"
  /\ ~qcalls[2].failed
  /\ qcalls[2].response.conversationId = "c1"
  /\ Len(conversations["c1"].messages) = 2

-----------------------------------------------------------------------------
(***************************************************************************)
(* The frontend chat store.                                                *)
(***************************************************************************)
\* C30: every sendMessage call leaves isLoading false and has appended
\* exactly one assistant message after the user message, whether the API
\* call returned success = true, returned success = false, or threw
C30_SendMessageSettles ==
  chat.pc = "returned" =>
    /\ ~chat.isLoading
    /\ Len(chat.messages) = chat.base + 2
    /\ chat.messages[chat.base + 1] = [role |-> "user", content |-> chat.query]
    /\ chat.messages[chat.base + 2].role = "assistant"

====
